---- MODULE Spec2Model ----
(***************************************************************************)
(* Verification model of four test-support programs of the repository:     *)
(*   qa/tasks/cephfs/caps_helper.py      (CapTester)                       *)
(*   qa/tasks/check_counter.py           (CheckCounter)                    *)
(*   qa/workunits/rgw/test_rgw_reshard.py (main, test_bucket_reshard)      *)
(*   src/cephadm/tests/fixtures.py       (test fixtures)                   *)
(* Each program has its own variables, initial condition, next-state       *)
(* relation and specification; the variables of the other programs stay    *)
(* at their idle values.                                                   *)
(*                                                                         *)
(* Python strings are sequences of one-character strings, so that find,    *)
(* index, slicing and replace are computed as Python computes them.        *)
(***************************************************************************)
EXTENDS Integers, Sequences, FiniteSets, TLC

VARIABLES
    \* ---- CapTester._get_fsnames_from_moncap
    fs_pc,        \* "idle" | "loop" | "done"
    fs_input,     \* the moncap argument as passed
    fs_moncap,    \* the local variable moncap (the text still to scan)
    fs_fsnames,   \* the local list fsnames
    fs_iters,     \* number of loop iterations executed
    \* ---- CapTester.run_mon_cap_tests
    mon_pc,       \* "idle" | "start" | "parse" | "assert" | "done"
    mon_keyring,  \* output of `auth get client.<id>`: a sequence of lines
    mon_moncap,   \* the extracted capability string
    mon_fsls,     \* output of `fs ls` run as the client
    mon_admin,    \* output of `fs ls` run as the administrator, or NotFetched
    mon_idx,      \* position in the list of names being asserted
    mon_result,   \* "running" | "pass" | "AssertionError" | "RuntimeError"
    \* ---- CapTester.write_test_files / run_mds_cap_tests
    mds_pc,       \* "idle" | "write" | "written" | "read" | "poswrite" | "negwrite" | "done"
    mds_mounts,   \* the mounts passed to write_test_files
    mds_testpath, \* the testpath argument of write_test_files, as passed
    mds_test_set, \* self.test_set
    mds_perm,     \* the perm argument of run_mds_cap_tests
    mds_mntpt,    \* the mntpt argument of run_mds_cap_tests (None or a string)
    mds_idx,      \* loop position in the current loop
    mds_cmdargs,  \* the paths currently appended to cmdargs
    mds_log,      \* the calls made on the mounts, in order
    mds_result,   \* "running" | "pass" | "AssertionError" | "RuntimeError" | "CommandFailedError"
    \* ---- CheckCounter.end
    cc_pc,        \* "type" | "daemon" | "counter" | "done"
    cc_dry_run,   \* config 'dry_run'
    cc_targets,   \* config 'counters' as a sequence of [type, counters]
    cc_ti,        \* index of the daemon type being processed
    cc_running,   \* daemon.running() of each daemon of the current type
    cc_di,        \* index of the daemon being visited
    cc_dump,      \* perf_dump of the daemon being visited
    cc_ci,        \* index of the counter being looked up
    cc_expected,  \* the local set expected
    cc_seen,      \* the local set seen
    cc_result,    \* "running" | "ok" | "RuntimeError" | "TypeError"
    cc_unseen,    \* the set named by the RuntimeError
    cc_hist,      \* per processed type: which daemons ran, were queried, met which counter
    cc_last,      \* outcome of the latest counter lookup
    \* ---- test_bucket_reshard
    rs_pc,        \* position in the scenario
    rs_fault,     \* the **fault keyword arguments
    rs_created,   \* conn.create_bucket returned
    rs_grants,    \* grants captured at creation
    rs_objs,      \* the local list objs (keys)
    rs_old,       \* old_shard_count
    rs_ret,       \* ret of the latest reshard command
    rs_log,       \* the commands and API calls issued, in order
    rs_exc,       \* the pending exception inside try, or None
    rs_result     \* "running" | "pass" | "fail"

VARIABLES
    \* ---- cephadm test fixtures cephadm_fs and host_sysfs (one fake filesystem)
    cfs_pc,         \* cephadm_fs: "unused" | the directory created next | "yielded"
    sysfs_pc,       \* host_sysfs: "unused" | position in the fixture | "yielded"
    sysfs_slot_num, \* the loop variable slot_num
    fake_dirs,      \* directories of the fake filesystem (paths)
    fake_files,     \* files of the fake filesystem: path -> contents
    \* ---- cephadm test fixture mock_bad_firewalld and its caller
    fw_pc,          \* "idle" | "call" | "construct" | "enable" | "apply" | "open" | "end" | "returned"
    fw_f,           \* the local variable f
    fw_ret,         \* the value the caller received
    fw_calls,       \* the calls the caller made on that value, with their outcome
    \* ---- test_rgw_reshard.py main(): start-up
    main_pc,        \* position in main()
    main_ret,       \* ret of the user-create command
    main_log,       \* commands and connection attempts issued, in order
    \* ---- test_bucket_reshard: the retry loop
    rt_pc,          \* "idle" | "retry" | "sleep" | "final_stats" | "AssertionError"
    rt_old,         \* old_shard_count
    rt_lock,        \* the reshard lock of the bucket is held
    rt_ret,         \* ret of the latest retry
    rt_cmd,         \* the latest command issued by the loop
    rt_slept,       \* seconds waited after the latest command
    rt_tries        \* passes of the loop so far (counted up to MaxBusy + 1)

fsVars  == <<fs_pc, fs_input, fs_moncap, fs_fsnames, fs_iters>>
monVars == <<mon_pc, mon_keyring, mon_moncap, mon_fsls, mon_admin, mon_idx, mon_result>>
mdsVars == <<mds_pc, mds_mounts, mds_testpath, mds_test_set, mds_perm, mds_mntpt,
             mds_idx, mds_cmdargs, mds_log, mds_result>>
ccVars  == <<cc_pc, cc_dry_run, cc_targets, cc_ti, cc_running, cc_di, cc_dump, cc_ci,
             cc_expected, cc_seen, cc_result, cc_unseen, cc_hist, cc_last>>
rsVars  == <<rs_pc, rs_fault, rs_created, rs_grants, rs_objs, rs_old, rs_ret, rs_log,
             rs_exc, rs_result>>
sysVars == <<cfs_pc, sysfs_pc, sysfs_slot_num, fake_dirs, fake_files>>
fwVars  == <<fw_pc, fw_f, fw_ret, fw_calls>>
mainVars == <<main_pc, main_ret, main_log>>
rtVars  == <<rt_pc, rt_old, rt_lock, rt_ret, rt_cmd, rt_slept, rt_tries>>
coreVars == <<fsVars, monVars, mdsVars, ccVars, rsVars>>
extVars == <<sysVars, fwVars, mainVars, rtVars>>
vars    == <<coreVars, extVars>>

None == "None"

(***************************************************************************)
(* Bounds of the model.                                                    *)
(***************************************************************************)
MaxPieces == 5      \* capability strings are built from at most this many pieces
MaxDaemons == 2     \* daemons per daemon type
MaxVal == 3         \* largest counter value a perf dump reports
MaxMounts == 2      \* mounts passed to write_test_files
MaxShards == 3      \* largest shard count bucket stats reports
MaxBusy == 2        \* EBUSY answers before the reshard lock expires
MaxCalls == 3       \* calls made on the value mock_bad_firewalld returns

(***************************************************************************)
(* Python str operations on sequences of characters.                       *)
(***************************************************************************)
Min(a, b) == IF a < b THEN a ELSE b

\* s.startswith(sub, at) with a 0-based offset
MatchAt(s, sub, at) ==
    /\ at + Len(sub) <= Len(s)
    /\ \A k \in 1..Len(sub) : s[at + k] = sub[k]

\* s.find(sub): lowest 0-based index of sub in s, -1 when absent
Find(s, sub) ==
    LET hits == {i \in 0..Len(s) : MatchAt(s, sub, i)}
    IN  IF hits = {} THEN -1 ELSE CHOOSE i \in hits : \A j \in hits : i <= j

\* sub in s
Contains(s, sub) == Find(s, sub) # -1

\* s[i:j] for 0 <= i and 0 <= j (empty when j <= i)
Slice(s, i, j) == SubSeq(s, i + 1, Min(j, Len(s)))

\* s[i:]
SliceFrom(s, i) == SubSeq(s, i + 1, Len(s))

\* s.replace(old, ''): every non-overlapping occurrence, left to right
RECURSIVE Replace(_, _)
Replace(s, old) ==
    IF old = <<>> \/ Find(s, old) = -1 THEN s
    ELSE LET at == Find(s, old)
         IN  Slice(s, 0, at) \o Replace(SliceFrom(s, at + Len(old)), old)

\* concatenation of a sequence of strings
RECURSIVE Flatten(_)
Flatten(ps) == IF ps = <<>> THEN <<>> ELSE Head(ps) \o Flatten(Tail(ps))

Comma == <<",">>
Marker == <<"f", "s", "n", "a", "m", "e", "=">>

\* the capability strings the model draws: concatenations of pieces
\* (a filesystem name never contains the marker itself: two markers are always
\* separated by a comma)
Pieces == {Marker, Comma, <<"a">>, <<"b">>}
PieceSeqs == UNION {[1..n -> Pieces] : n \in 0..MaxPieces}
MarkersSeparated(ps) ==
    \A i \in DOMAIN ps, j \in DOMAIN ps :
        (i < j /\ ps[i] = Marker /\ ps[j] = Marker) => \E k \in (i + 1)..(j - 1) : ps[k] = Comma
Moncaps == {Flatten(ps) : ps \in {q \in PieceSeqs : MarkersSeparated(q)}}

(***************************************************************************)
(* CapTester._get_fsnames_from_moncap                                      *)
(***************************************************************************)
\* a pass that blanks the text it consumed instead of removing it
FsnamesBodyBlanking(moncap) ==
    [fsname |-> <<>>, moncap |-> [i \in 1..Len(moncap) |-> " "]]

\* one pass of the while body: the name appended and the new moncap
FsnamesBody(moncap) ==
    LET fsname_first_char == Find(moncap, Marker) + Len(Marker)
    IN  IF Contains(moncap, Comma)
        THEN LET last == Find(moncap, Comma)
             IN  [fsname |-> Slice(moncap, fsname_first_char, last),
                  moncap |-> Replace(moncap, Slice(moncap, 0, last + 1))]
        ELSE [fsname |-> SliceFrom(moncap, fsname_first_char),
              moncap |-> Replace(moncap, SliceFrom(moncap, 0))]

GetFsnamesCall(moncap) ==
    /\ fs_pc' = "loop"
    /\ fs_input' = moncap
    /\ fs_moncap' = moncap
    /\ fs_fsnames' = <<>>
    /\ fs_iters' = 0

GetFsnamesIter ==
    /\ fs_pc = "loop"
    /\ Find(fs_moncap, Marker) # -1
    /\ LET r == FsnamesBody(fs_moncap)
       IN  /\ fs_moncap' = r.moncap
           /\ fs_fsnames' = Append(fs_fsnames, r.fsname)
    /\ fs_iters' = fs_iters + 1
    /\ UNCHANGED <<fs_pc, fs_input>>

GetFsnamesReturn ==
    /\ fs_pc = "loop"
    /\ Find(fs_moncap, Marker) = -1
    /\ fs_pc' = "done"
    /\ UNCHANGED <<fs_input, fs_moncap, fs_fsnames, fs_iters>>

FsIdle ==
    /\ fs_pc = "idle"
    /\ fs_input = <<>>
    /\ fs_moncap = <<>>
    /\ fs_fsnames = <<>>
    /\ fs_iters = 0

(***************************************************************************)
(* CapTester.run_mon_cap_tests                                             *)
(***************************************************************************)
NL == <<"\n">>
CapsMon == <<"c", "a", "p", "s", " ", "m", "o", "n">>
EqQuote == <<" ", "=", " ", "\"">>
NamePrefix == <<"n", "a", "m", "e", ":", " ">>
NotFetched == <<"<not fetched>">>

\* s.split(sep) for a one-character separator
RECURSIVE Split(_, _)
Split(s, sep) ==
    IF Find(s, sep) = -1 THEN <<s>>
    ELSE <<Slice(s, 0, Find(s, sep))>> \o Split(SliceFrom(s, Find(s, sep) + 1), sep)

\* the text `auth get client.<id>` prints for a client whose mon cap is moncap
KeyringOf(moncap) ==
    <<"[", "c", "]">> \o NL \o <<"\t">> \o CapsMon \o EqQuote \o moncap \o <<"\"">> \o NL

\* a keyring without a mon capability
KeyringNoMon == <<"[", "c", "]">> \o NL

\* the filesystem names of the cluster and the text `fs ls` prints for a listing
FsNames == {<<"a">>, <<"b">>}
Listings == {<<>>} \cup {<<n>> : n \in FsNames}
              \cup {p \in FsNames \X FsNames : p[1] # p[2]}
RECURSIVE FsLsText(_)
FsLsText(l) ==
    IF l = <<>> THEN <<>>
    ELSE NamePrefix \o Head(l) \o Comma \o NL \o FsLsText(Tail(l))
FsLsOutputs == {FsLsText(l) : l \in Listings}

\* lines 107-110: the lines of the keyring that contain 'caps mon'
CapsMonLines(keyring) ==
    LET lines == Split(keyring, NL)
    IN  SelectSeq(lines, LAMBDA line : Contains(line, CapsMon))

\* line 109: line[line.find(' = "') + 4 : -1]
MoncapOfLine(line) == Slice(line, Find(line, EqQuote) + 4, Len(line) - 1)

\* lines 104-113: extract the mon cap, or raise RuntimeError
MonExtract ==
    /\ mon_pc = "start"
    /\ IF CapsMonLines(mon_keyring) = <<>>
       THEN /\ mon_pc' = "done"
            /\ mon_result' = "RuntimeError"
            /\ UNCHANGED mon_moncap
       ELSE /\ mon_pc' = "fsls"
            /\ mon_moncap' = MoncapOfLine(Head(CapsMonLines(mon_keyring)))
            /\ UNCHANGED mon_result
    /\ UNCHANGED <<mon_keyring, mon_fsls, mon_admin, mon_idx, fsVars>>

\* lines 117-131: no fsname= in the cap: compare with the administrator's listing
MonCompareAdmin ==
    /\ mon_pc = "fsls"
    /\ ~Contains(mon_moncap, Marker)
    /\ \E fsls \in FsLsOutputs, fsls_admin \in FsLsOutputs :
          /\ mon_fsls' = fsls
          /\ mon_admin' = fsls_admin
          /\ mon_result' = IF fsls = fsls_admin THEN "pass" ELSE "AssertionError"
    /\ mon_pc' = "done"
    /\ UNCHANGED <<mon_keyring, mon_moncap, mon_idx, fsVars>>

\* lines 117-121, 133-136: fsname= in the cap: call _get_fsnames_from_moncap
MonParse ==
    /\ mon_pc = "fsls"
    /\ Contains(mon_moncap, Marker)
    /\ \E fsls \in FsLsOutputs : mon_fsls' = fsls
    /\ GetFsnamesCall(mon_moncap)
    /\ mon_pc' = "parse"
    /\ mon_idx' = 1
    /\ UNCHANGED <<mon_keyring, mon_moncap, mon_admin, mon_result>>

\* lines 136-137: one pass of the for loop: assertIn('name: ' + fsname, fsls)
MonAssertIn ==
    /\ mon_pc = "parse"
    /\ fs_pc = "done"
    /\ mon_idx <= Len(fs_fsnames)
    /\ IF Contains(mon_fsls, NamePrefix \o fs_fsnames[mon_idx])
       THEN /\ mon_idx' = mon_idx + 1
            /\ UNCHANGED <<mon_pc, mon_result>>
       ELSE /\ mon_pc' = "done"
            /\ mon_result' = "AssertionError"
            /\ UNCHANGED mon_idx
    /\ UNCHANGED <<mon_keyring, mon_moncap, mon_fsls, mon_admin, fsVars>>

\* the for loop is exhausted: the method returns
MonReturn ==
    /\ mon_pc = "parse"
    /\ fs_pc = "done"
    /\ mon_idx > Len(fs_fsnames)
    /\ mon_pc' = "done"
    /\ mon_result' = "pass"
    /\ UNCHANGED <<mon_keyring, mon_moncap, mon_fsls, mon_admin, mon_idx, fsVars>>

(***************************************************************************)
(* CapTester.write_test_files and CapTester.run_mds_cap_tests              *)
(***************************************************************************)
Sep == <<"/">>
PyNone == <<"<None>">>
Dirname == <<"t", "e", "s", "t", "d", "i", "r">>
Filename == <<"t", "e", "s", "t", "f", "i", "l", "e">>

\* posixpath.join(a, b)
Join2(a, b) ==
    IF b # <<>> /\ Head(b) = "/" THEN b
    ELSE IF a = <<>> \/ a[Len(a)] = "/" THEN a \o b
    ELSE a \o Sep \o b

\* os.path.join(a, b, c)
os_path_join(a, b, c) == Join2(Join2(a, b), c)

\* lines 48-52: the testpath used for the joins
NormTestpath(testpath) ==
    LET t1 == IF testpath # <<>>
              THEN (IF Head(testpath) = "/" THEN SliceFrom(testpath, 1) ELSE testpath)
              ELSE testpath
    IN  IF t1 = Sep THEN <<>> ELSE t1

\* the mounts of the test: mount i is mounted on the host at /m<i>
Mount(i) ==
    [id |-> i,
     cephfs_name |-> "cephfs",
     cephfs_mntpt |-> Sep,
     hostfs_mntpt |-> Sep \o <<"m">> \o <<ToString(i)>>]
MountLists ==
    {l \in UNION {[1..n -> 1..MaxMounts] : n \in 0..MaxMounts} :
        \A i \in DOMAIN l, j \in DOMAIN l : i # j => l[i] # l[j]}
Testpaths == {<<>>, <<"d">>, <<"/", "d">>, Sep, <<"/", "/", "d">>, <<"/", "m">>}
Mntpts == {PyNone, <<>>, <<"/", "d">>, <<"d">>, <<"/", "m">>}
Perms == {"rw", "r", "w", ""}

\* lines 65-68: the content written, which names the path and the mount
Filedata(mount_x, filepath) ==
    [filepath |-> filepath,
     cephfs_name |-> mount_x.cephfs_name,
     cephfs_mntpt |-> mount_x.cephfs_mntpt,
     hostfs_mntpt |-> mount_x.hostfs_mntpt]
Garbled ==
    [filepath |-> <<"?">>, cephfs_name |-> "?", cephfs_mntpt |-> <<>>, hostfs_mntpt |-> <<>>]

\* lines 57-59
Dirpath(mount_x, testpath) == os_path_join(mount_x.hostfs_mntpt, NormTestpath(testpath), Dirname)
Filepath(mount_x, testpath) == Join2(Dirpath(mount_x, testpath), Filename)

\* a call made on a mount
NoExpect == [retval |-> 0, errmsgs |-> {}]
Call(by, op, mount, args, res) ==
    [by |-> by, op |-> op, mount |-> mount, args |-> args, expect |-> NoExpect, res |-> res]

\* lines 30-41: write_test_files(mounts, testpath) is called
WriteTestFilesCall ==
    /\ mds_pc = "idle"
    /\ mds_test_set' = <<>>
    /\ mds_idx' = 1
    /\ mds_pc' = "write"
    /\ UNCHANGED <<mds_mounts, mds_testpath, mds_perm, mds_mntpt, mds_cmdargs, mds_log,
                   mds_result>>

\* lines 54-71: one pass of `for mount_x in mounts`
WriteTestFile ==
    /\ mds_pc = "write"
    /\ mds_idx <= Len(mds_mounts)
    /\ LET mount_x == Mount(mds_mounts[mds_idx])
           dirpath == Dirpath(mount_x, mds_testpath)
           filepath == Filepath(mount_x, mds_testpath)
           filedata == Filedata(mount_x, filepath)
           mkdir(res) == Call("write_test_files", "mkdir", mount_x.id, <<dirpath>>, res)
           write(res) == Call("write_test_files", "write_file", mount_x.id, <<filepath>>, res)
       IN  \/ /\ mds_log' = mds_log \o <<mkdir("ok"), write("ok")>>
              /\ mds_test_set' = Append(mds_test_set,
                                        [mount |-> mount_x.id, path |-> filepath, data |-> filedata])
              /\ mds_idx' = mds_idx + 1
              /\ UNCHANGED <<mds_pc, mds_result>>
           \/ /\ mds_log' \in {mds_log \o <<mkdir("raised")>>,
                               mds_log \o <<mkdir("ok"), write("raised")>>}
              /\ mds_pc' = "done"
              /\ mds_result' = "CommandFailedError"
              /\ UNCHANGED <<mds_test_set, mds_idx>>
    /\ UNCHANGED <<mds_mounts, mds_testpath, mds_perm, mds_mntpt, mds_cmdargs>>

\* line 54: the loop is exhausted: write_test_files returns
WriteTestFilesReturn ==
    /\ mds_pc = "write"
    /\ mds_idx > Len(mds_mounts)
    /\ mds_pc' = "written"
    /\ UNCHANGED <<mds_mounts, mds_testpath, mds_test_set, mds_perm, mds_mntpt, mds_idx,
                   mds_cmdargs, mds_log, mds_result>>

\* lines 150-152: the recorded paths with the mount-relative root removed
RewriteTestSet(test_set, mntpt) ==
    IF mntpt # PyNone /\ mntpt # <<>>
    THEN [i \in DOMAIN test_set |->
            [mount |-> test_set[i].mount,
             path |-> Replace(test_set[i].path, mntpt),
             data |-> test_set[i].data]]
    ELSE test_set

\* the branch a permission level selects, any level but 'rw' running the negative test
WriteTestForLenient(perm) ==
    IF perm = "rw" THEN "poswrite" ELSE "negwrite"

\* lines 156-161: the branch a permission level selects
WriteTestFor(perm) ==
    IF perm = "rw" THEN "poswrite"
    ELSE IF perm = "r" THEN "negwrite"
    ELSE "RuntimeError"

\* lines 139-154: run_mds_cap_tests(perm, mntpt) is called
RunMdsCapTestsCall ==
    /\ mds_pc = "written"
    /\ \E perm \in Perms, mntpt \in Mntpts :
          /\ mds_perm' = perm
          /\ mds_mntpt' = mntpt
          /\ mds_test_set' = RewriteTestSet(mds_test_set, mntpt)
    /\ mds_idx' = 1
    /\ mds_pc' = "read"
    /\ UNCHANGED <<mds_mounts, mds_testpath, mds_cmdargs, mds_log, mds_result>>

\* lines 163-170: one pass of conduct_pos_test_for_read_caps
ReadCheck ==
    /\ mds_pc = "read"
    /\ mds_idx <= Len(mds_test_set)
    /\ LET t == mds_test_set[mds_idx]
       IN  \E contents \in {t.data, Garbled} :
              /\ mds_log' = Append(mds_log,
                    Call("run_mds_cap_tests", "read_file", t.mount, <<t.path>>,
                         IF contents = t.data THEN "ok" ELSE "mismatch"))
              /\ IF contents = t.data
                 THEN /\ mds_idx' = mds_idx + 1
                      /\ UNCHANGED <<mds_pc, mds_result>>
                 ELSE /\ mds_pc' = "done"
                      /\ mds_result' = "AssertionError"
                      /\ UNCHANGED mds_idx
    /\ UNCHANGED <<mds_mounts, mds_testpath, mds_test_set, mds_perm, mds_mntpt, mds_cmdargs>>

\* lines 156-161: the read checks passed: pick the write test
WriteTestDispatch ==
    /\ mds_pc = "read"
    /\ mds_idx > Len(mds_test_set)
    /\ IF WriteTestFor(mds_perm) = "RuntimeError"
       THEN /\ mds_pc' = "done"
            /\ mds_result' = "RuntimeError"
            /\ UNCHANGED mds_idx
       ELSE /\ mds_pc' = WriteTestFor(mds_perm)
            /\ mds_idx' = 1
            /\ UNCHANGED mds_result
    /\ UNCHANGED <<mds_mounts, mds_testpath, mds_test_set, mds_perm, mds_mntpt, mds_cmdargs,
                   mds_log>>

\* lines 172-180: one pass of conduct_pos_test_for_write_caps
PosWriteCheck ==
    /\ mds_pc = "poswrite"
    /\ mds_idx <= Len(mds_test_set)
    /\ LET t == mds_test_set[mds_idx]
           write(res) == Call("run_mds_cap_tests", "write_file", t.mount, <<t.path>>, res)
           read(res) == Call("run_mds_cap_tests", "read_file", t.mount, <<t.path>>, res)
       IN  \/ /\ mds_log' = mds_log \o <<write("ok"), read("ok")>>
              /\ mds_idx' = mds_idx + 1
              /\ UNCHANGED <<mds_pc, mds_result>>
           \/ /\ mds_log' = mds_log \o <<write("ok"), read("mismatch")>>
              /\ mds_pc' = "done"
              /\ mds_result' = "AssertionError"
              /\ UNCHANGED mds_idx
           \/ /\ mds_log' = mds_log \o <<write("raised")>>
              /\ mds_pc' = "done"
              /\ mds_result' = "CommandFailedError"
              /\ UNCHANGED mds_idx
    /\ UNCHANGED <<mds_mounts, mds_testpath, mds_test_set, mds_perm, mds_mntpt, mds_cmdargs>>

\* lines 182-195: one pass of conduct_neg_test_for_write_caps: append the path,
\* run the command expecting exit status 1, pop the path
NegExpect == [retval |-> 1, errmsgs |-> {"permission denied", "operation not permitted"}]
NegWriteCheck ==
    /\ mds_pc = "negwrite"
    /\ mds_idx <= Len(mds_test_set)
    /\ LET t == mds_test_set[mds_idx]
           cmdargs == Append(mds_cmdargs, t.path)
           neg(res) == [by |-> "run_mds_cap_tests", op |-> "negtestcmd", mount |-> t.mount,
                        args |-> cmdargs, expect |-> NegExpect, res |-> res]
       IN  \/ /\ mds_log' = Append(mds_log, neg("ok"))
              /\ mds_cmdargs' = SubSeq(cmdargs, 1, Len(cmdargs) - 1)
              /\ mds_idx' = mds_idx + 1
              /\ UNCHANGED <<mds_pc, mds_result>>
           \/ /\ mds_log' = Append(mds_log, neg("raised"))
              /\ mds_cmdargs' = cmdargs
              /\ mds_pc' = "done"
              /\ mds_result' = "CommandFailedError"
              /\ UNCHANGED mds_idx
    /\ UNCHANGED <<mds_mounts, mds_testpath, mds_test_set, mds_perm, mds_mntpt>>

\* the write test is through every recorded file: run_mds_cap_tests returns
RunMdsCapTestsReturn ==
    /\ mds_pc \in {"poswrite", "negwrite"}
    /\ mds_idx > Len(mds_test_set)
    /\ mds_pc' = "done"
    /\ mds_result' = "pass"
    /\ UNCHANGED <<mds_mounts, mds_testpath, mds_test_set, mds_perm, mds_mntpt, mds_idx,
                   mds_cmdargs, mds_log>>

(***************************************************************************)
(* CheckCounter.end                                                        *)
(***************************************************************************)
Dot == <<".">>

\* a parsed perf dump: an integer leaf or a mapping from keys to values
Leaf(n) == [isMap |-> FALSE, v |-> n, m |-> <<>>]
Map(f) == [isMap |-> TRUE, v |-> 0, m |-> f]
EmptyMap == Map(<<>>)

KeyM == <<"m">>
KeyX == <<"x">>
KeyZ == <<"z">>
\* {}, {"m": {"x": v}}, {"m": 1}, {"m": {"x": {"z": 1}}}
Dumps ==
    {EmptyMap}
        \cup {Map(KeyM :> Map(KeyX :> Leaf(v))) : v \in 0..MaxVal}
        \cup {Map(KeyM :> Leaf(1))}
        \cup {Map(KeyM :> Map(KeyX :> Map(KeyZ :> Leaf(1))))}

\* counter specifications: a bare dotted name, or {name: ..., min: ...}
Bare(name) == [isdict |-> FALSE, name |-> name, min |-> 0]
WithMin(name, min) == [isdict |-> TRUE, name |-> name, min |-> min]
NameMX == KeyM \o Dot \o KeyX
NameMY == KeyM \o Dot \o <<"y">>
NameMXZ == KeyM \o Dot \o KeyX \o Dot \o KeyZ
CounterLists ==
    {<<Bare(NameMX)>>, <<WithMin(NameMX, 2)>>, <<Bare(NameMY), Bare(NameMX)>>,
     <<Bare(NameMX), WithMin(NameMX, 3)>>, <<Bare(NameMXZ)>>}
DaemonTypes == <<"mds", "osd">>

\* lines 80-85
CounterName(counter) == counter.name
CounterMin(counter) == IF counter.isdict THEN counter.min ELSE 1

\* lines 88-95: the descent through the dump; `key not in val` raises TypeError
\* when val is not a mapping
RECURSIVE Descend(_, _)
Descend(val, keys) ==
    IF keys = <<>> THEN [st |-> "found", val |-> val]
    ELSE IF ~val.isMap THEN [st |-> "TypeError", val |-> val]
    ELSE IF Head(keys) \notin DOMAIN val.m THEN [st |-> "None", val |-> val]
    ELSE Descend(val.m[Head(keys)], Tail(keys))

\* a seen set that the latest daemon overrides
SeenAfterLatestDaemon(seen, name, val, minval) ==
    IF val.v >= minval THEN seen \cup {name} ELSE seen \ {name}

\* lines 97-100: the new seen set; `val >= minval` raises TypeError on a mapping
SeenAfter(seen, name, val, minval) ==
    IF val.v >= minval THEN seen \cup {name} ELSE seen

\* lines 79-100 for one counter: [st, seen]
LookupCounter(perf_dump, counter, seen) ==
    LET name == CounterName(counter)
        minval == CounterMin(counter)
        r == Descend(perf_dump, Split(name, Dot))
    IN  IF r.st = "TypeError" THEN [st |-> "TypeError", seen |-> seen]
        ELSE IF r.st = "None" THEN [st |-> "ok", seen |-> seen]
        ELSE IF r.val.isMap THEN [st |-> "TypeError", seen |-> seen]
        ELSE [st |-> "ok", seen |-> SeenAfter(seen, name, r.val, minval)]

\* the integer the dump holds at the dotted name, -1 when it holds none there
RECURSIVE ValueAt(_, _)
ValueAt(val, keys) ==
    IF keys = <<>> THEN (IF val.isMap THEN -1 ELSE val.v)
    ELSE IF val.isMap /\ Head(keys) \in DOMAIN val.m
         THEN ValueAt(val.m[Head(keys)], Tail(keys))
         ELSE -1

\* every segment of the dotted name is found while descending the dump
RECURSIVE Resolves(_, _)
Resolves(val, keys) ==
    IF keys = <<>> THEN TRUE
    ELSE /\ val.isMap
         /\ Head(keys) \in DOMAIN val.m
         /\ Resolves(val.m[Head(keys)], Tail(keys))

\* the specifications of a counter list that a daemon reporting dump d meets
MetBy(d, counters) ==
    {k \in 1..Len(counters) :
        ValueAt(d, Split(counters[k].name, Dot))
            >= (IF counters[k].isdict THEN counters[k].min ELSE 1)}

NoLookup == [missing |-> FALSE, raised |-> FALSE, added |-> FALSE]

CurCounters == cc_targets[cc_ti].counters
NumDaemons == Len(cc_running)

\* lines 53-61: the next daemon type: resolve its daemons, reset expected and seen
CCStartType ==
    /\ cc_pc = "type"
    /\ cc_ti <= Len(cc_targets)
    /\ \E n \in 0..MaxDaemons : \E running \in [1..n -> BOOLEAN] :
          /\ cc_running' = running
          /\ cc_hist' = Append(cc_hist, [unqueried |-> {i \in 1..n : running[i]},
                                         met |-> {}, late |-> {}])
    /\ cc_di' = 1
    /\ cc_expected' = {}
    /\ cc_seen' = {}
    /\ cc_pc' = "daemon"
    /\ UNCHANGED <<cc_dry_run, cc_targets, cc_ti, cc_dump, cc_ci, cc_result, cc_unseen, cc_last>>

\* line 53: no daemon type is left: end() returns
CCReturn ==
    /\ cc_pc = "type"
    /\ cc_ti > Len(cc_targets)
    /\ cc_pc' = "done"
    /\ cc_result' = "ok"
    /\ UNCHANGED <<cc_dry_run, cc_targets, cc_ti, cc_running, cc_di, cc_dump, cc_ci,
                   cc_expected, cc_seen, cc_unseen, cc_hist, cc_last>>

\* lines 64-66: the daemon is not running
CCSkipDaemon ==
    /\ cc_pc = "daemon"
    /\ cc_di <= NumDaemons
    /\ ~cc_running[cc_di]
    /\ cc_di' = cc_di + 1
    /\ cc_hist' = [cc_hist EXCEPT ![cc_ti].late = @ \cup cc_hist[cc_ti].met]
    /\ UNCHANGED <<cc_pc, cc_dry_run, cc_targets, cc_ti, cc_running, cc_dump, cc_ci,
                   cc_expected, cc_seen, cc_result, cc_unseen, cc_last>>

\* lines 70-77: the admin socket answers nothing
CCNoResponse ==
    /\ cc_pc = "daemon"
    /\ cc_di <= NumDaemons
    /\ cc_running[cc_di]
    /\ cc_hist' = [cc_hist EXCEPT ![cc_ti].unqueried = @ \ {cc_di},
                                  ![cc_ti].late = @ \cup cc_hist[cc_ti].met]
    /\ cc_di' = cc_di + 1
    /\ UNCHANGED <<cc_pc, cc_dry_run, cc_targets, cc_ti, cc_running, cc_dump, cc_ci,
                   cc_expected, cc_seen, cc_result, cc_unseen, cc_last>>

\* lines 70-74: the admin socket answers a perf dump
CCPerfDump ==
    /\ cc_pc = "daemon"
    /\ cc_di <= NumDaemons
    /\ cc_running[cc_di]
    /\ \E d \in Dumps :
          /\ cc_dump' = d
          /\ cc_hist' = [cc_hist EXCEPT
                ![cc_ti].unqueried = @ \ {cc_di},
                ![cc_ti].met = @ \cup MetBy(d, CurCounters),
                ![cc_ti].late = @ \cup (cc_hist[cc_ti].met \ MetBy(d, CurCounters))]
    /\ cc_ci' = 1
    /\ cc_pc' = "counter"
    /\ UNCHANGED <<cc_dry_run, cc_targets, cc_ti, cc_running, cc_di,
                   cc_expected, cc_seen, cc_result, cc_unseen, cc_last>>

\* lines 79-100: one pass of `for counter in counters`
CCCounter ==
    /\ cc_pc = "counter"
    /\ cc_ci <= Len(CurCounters)
    /\ LET counter == CurCounters[cc_ci]
           r == LookupCounter(cc_dump, counter, cc_seen)
       IN  /\ cc_expected' = cc_expected \cup {CounterName(counter)}
           /\ cc_seen' = r.seen
           /\ cc_last' = [missing |-> ~Resolves(cc_dump, Split(counter.name, Dot)),
                          raised |-> r.st = "TypeError",
                          added |-> r.seen # cc_seen]
           /\ IF r.st = "TypeError"
              THEN /\ cc_pc' = "done"
                   /\ cc_result' = "TypeError"
                   /\ UNCHANGED cc_ci
              ELSE /\ cc_ci' = cc_ci + 1
                   /\ UNCHANGED <<cc_pc, cc_result>>
    /\ UNCHANGED <<cc_dry_run, cc_targets, cc_ti, cc_running, cc_di, cc_dump,
                   cc_unseen, cc_hist>>

\* line 79: the counters of this daemon are done: on to the next daemon
CCNextDaemon ==
    /\ cc_pc = "counter"
    /\ cc_ci > Len(CurCounters)
    /\ cc_di' = cc_di + 1
    /\ cc_pc' = "daemon"
    /\ cc_dump' = EmptyMap
    /\ cc_ci' = 0
    /\ cc_last' = NoLookup
    /\ UNCHANGED <<cc_dry_run, cc_targets, cc_ti, cc_running,
                   cc_expected, cc_seen, cc_result, cc_unseen, cc_hist>>

\* lines 102-108: every daemon of the type was visited: the unseen check
CCEndType ==
    /\ cc_pc = "daemon"
    /\ cc_di > NumDaemons
    /\ LET unseen == cc_expected \ cc_seen
       IN  IF ~cc_dry_run /\ unseen # {}
           THEN /\ cc_pc' = "done"
                /\ cc_result' = "RuntimeError"
                /\ cc_unseen' = unseen
                /\ UNCHANGED cc_ti
           ELSE /\ cc_pc' = "type"
                /\ cc_ti' = cc_ti + 1
                /\ UNCHANGED <<cc_result, cc_unseen>>
    /\ UNCHANGED <<cc_dry_run, cc_targets, cc_running, cc_di, cc_dump, cc_ci,
                   cc_expected, cc_seen, cc_hist, cc_last>>

(***************************************************************************)
(* test_bucket_reshard(conn, name, **fault)                                *)
(***************************************************************************)
EBUSY == 16
ECANCELED == 125
EIO == 5
NumObjs == 20
LockDuration == 30
SleepSeconds == 30

\* exit statuses the reshard command can return (134: killed by SIGABRT)
RetCodes == {0, 1, EIO, EBUSY, ECANCELED, 134}
Grants == {"authenticated-read", "private"}
Checkpoints == {"set_target_layout", "block_writes", "commit_target_layout", "do_reshard"}

\* the **fault keyword arguments main() passes (lines 249-270), and an explicit
\* error code other than ECANCELED
Fault(error_at, abort_at, has_code, code) ==
    [error_at |-> error_at, abort_at |-> abort_at, has_code |-> has_code, error_code |-> code]
NoFault == Fault(None, None, FALSE, 0)
Faults ==
    {Fault(c, None, FALSE, 0) : c \in Checkpoints}
        \cup {Fault(None, c, FALSE, 0) : c \in Checkpoints}
        \cup {Fault(c, None, TRUE, ECANCELED) : c \in {"set_target_layout", "commit_target_layout"}}
        \cup {Fault("do_reshard", None, TRUE, EIO)}

\* lines 98-107: the flags of the command run_bucket_reshard_cmd builds
ReshardCmd(num_shards, kwargs) ==
    [num_shards |-> num_shards,
     lock_duration |-> LockDuration,
     inject_error_at |-> kwargs.error_at,
     inject_abort_at |-> IF kwargs.error_at # None THEN None ELSE kwargs.abort_at,
     has_error_code |-> kwargs.has_code,
     inject_error_code |-> kwargs.error_code]
NoCmd == ReshardCmd(0, NoFault)

\* line 54: BucketStats.num_shards
NumShardsOf(num_shards) == IF num_shards > 0 THEN num_shards ELSE 1

\* a branch that never expects the faulted command to succeed
ExpectsSuccessNever(fault) == FALSE

\* line 126: fault.get('error_code') == errno.ECANCELED
ExpectsSuccess(fault) == fault.has_code /\ fault.error_code = ECANCELED

\* an assertion that accepts EBUSY from the faulted command
FaultedRetAcceptedLoose(ret) == ret # 0

\* line 129: assert(ret != 0 and ret != errno.EBUSY)
FaultedRetAccepted(ret) == ret # 0 /\ ret # EBUSY

\* a command or API call issued by the scenario
Ev(op, n, g, cmd, keys, res) ==
    [op |-> op, n |-> n, g |-> g, cmd |-> cmd, keys |-> keys, res |-> res]
RsEv(op, res) == Ev(op, 0, None, NoCmd, {}, res)
StatsEv(n, res) == Ev("bucket_stats", n, None, NoCmd, {}, res)
AclEv(g, res) == Ev("acl_grants", 0, g, NoCmd, {}, res)
ReshardEv(cmd, ret) == Ev("reshard", ret, None, cmd, {}, "ok")
KeyEv(op, key, res) == Ev(op, key, None, NoCmd, {}, res)

\* an exception raised inside the try block: the finally block runs next
RsRaise(ev, exc) ==
    /\ rs_log' = Append(rs_log, ev)
    /\ rs_exc' = exc
    /\ rs_pc' = "cleanup_objs"

\* line 111: conn.create_bucket
RsCreateBucket ==
    /\ rs_pc = "create"
    /\ \/ /\ rs_log' = Append(rs_log, RsEv("create_bucket", "ok"))
          /\ rs_created' = TRUE
          /\ rs_pc' = "grants"
          /\ UNCHANGED rs_result
       \/ /\ rs_log' = Append(rs_log, RsEv("create_bucket", "raised"))
          /\ rs_pc' = "done"
          /\ rs_result' = "fail"
          /\ UNCHANGED rs_created
    /\ UNCHANGED <<rs_fault, rs_grants, rs_objs, rs_old, rs_ret, rs_exc>>

\* line 112: grants = bucket.Acl().grants, before the try block is entered
RsCaptureGrants ==
    /\ rs_pc = "grants"
    /\ \/ \E g \in Grants :
             /\ rs_log' = Append(rs_log, AclEv(g, "ok"))
             /\ rs_grants' = g
             /\ rs_pc' = "put"
             /\ UNCHANGED rs_result
       \/ /\ rs_log' = Append(rs_log, AclEv(None, "raised"))
          /\ rs_pc' = "done"
          /\ rs_result' = "fail"
          /\ UNCHANGED rs_grants
    /\ UNCHANGED <<rs_fault, rs_created, rs_objs, rs_old, rs_ret, rs_exc>>

\* lines 117-118: one pass of the upload loop
RsPutObject ==
    /\ rs_pc = "put"
    /\ Len(rs_objs) < NumObjs
    /\ LET i == Len(rs_objs)
       IN  \/ /\ rs_log' = Append(rs_log, KeyEv("put_object", i, "ok"))
              /\ rs_objs' = Append(rs_objs, i)
              /\ UNCHANGED <<rs_pc, rs_exc>>
           \/ /\ RsRaise(KeyEv("put_object", i, "raised"), "ClientError")
              /\ UNCHANGED rs_objs
    /\ UNCHANGED <<rs_fault, rs_created, rs_grants, rs_old, rs_ret, rs_result>>

\* lines 120-121: old_shard_count = get_bucket_stats(name).num_shards
RsOldShardCount ==
    /\ rs_pc = "put"
    /\ Len(rs_objs) = NumObjs
    /\ \/ \E n \in 0..MaxShards :
             /\ rs_log' = Append(rs_log, StatsEv(NumShardsOf(n), "ok"))
             /\ rs_old' = NumShardsOf(n)
             /\ rs_pc' = "reshard"
             /\ UNCHANGED rs_exc
       \/ /\ RsRaise(StatsEv(0, "raised"), "AssertionError")
          /\ UNCHANGED rs_old
    /\ UNCHANGED <<rs_fault, rs_created, rs_grants, rs_objs, rs_ret, rs_result>>

\* lines 124-129: the reshard with fault injection and the assertion on its status
RsFaultedReshard ==
    /\ rs_pc = "reshard"
    /\ \E ret \in RetCodes :
          /\ rs_ret' = ret
          /\ LET ev == ReshardEv(ReshardCmd(rs_old + 1, rs_fault), ret)
             IN  IF ExpectsSuccess(rs_fault)
                 THEN IF ret = 0
                      THEN /\ rs_log' = Append(rs_log, ev)
                           /\ rs_pc' = "final_stats"
                           /\ UNCHANGED rs_exc
                      ELSE RsRaise(ev, "AssertionError")
                 ELSE IF FaultedRetAccepted(ret)
                      THEN /\ rs_log' = Append(rs_log, ev)
                           /\ rs_pc' = "cur_stats"
                           /\ UNCHANGED rs_exc
                      ELSE RsRaise(ev, "AssertionError")
    /\ UNCHANGED <<rs_fault, rs_created, rs_grants, rs_objs, rs_old, rs_result>>

\* lines 132-133: the shard count right after the failed reshard
RsCurShardCount ==
    /\ rs_pc = "cur_stats"
    /\ \/ \E n \in 0..MaxShards :
             LET cur_shard_count == NumShardsOf(n)
             IN  IF cur_shard_count = rs_old
                 THEN /\ rs_log' = Append(rs_log, StatsEv(cur_shard_count, "ok"))
                      /\ rs_pc' = "delete_one"
                      /\ UNCHANGED rs_exc
                 ELSE RsRaise(StatsEv(cur_shard_count, "ok"), "AssertionError")
       \/ RsRaise(StatsEv(0, "raised"), "AssertionError")
    /\ UNCHANGED <<rs_fault, rs_created, rs_grants, rs_objs, rs_old, rs_ret, rs_result>>

\* line 136: objs.pop().delete()
RsDeleteOne ==
    /\ rs_pc = "delete_one"
    /\ LET key == rs_objs[Len(rs_objs)]
       IN  /\ rs_objs' = SubSeq(rs_objs, 1, Len(rs_objs) - 1)
           /\ \/ /\ rs_log' = Append(rs_log, KeyEv("delete_object", key, "ok"))
                 /\ rs_pc' = "recheck_grants"
                 /\ UNCHANGED rs_exc
              \/ RsRaise(KeyEv("delete_object", key, "raised"), "ClientError")
    /\ UNCHANGED <<rs_fault, rs_created, rs_grants, rs_old, rs_ret, rs_result>>

\* line 138: assert grants == bucket.Acl().grants
RsRecheckGrants ==
    /\ rs_pc = "recheck_grants"
    /\ \/ \E g \in Grants :
             IF g = rs_grants
             THEN /\ rs_log' = Append(rs_log, AclEv(g, "ok"))
                  /\ rs_pc' = "retry"
                  /\ UNCHANGED rs_exc
             ELSE RsRaise(AclEv(g, "ok"), "AssertionError")
       \/ RsRaise(AclEv(None, "raised"), "ClientError")
    /\ UNCHANGED <<rs_fault, rs_created, rs_grants, rs_objs, rs_old, rs_ret, rs_result>>

NumSleeps == Len(SelectSeq(rs_log, LAMBDA e : e.op = "sleep"))

\* lines 142-149: one pass of the retry loop, without fault injection
RsRetryReshard ==
    /\ rs_pc = "retry"
    /\ \E ret \in RetCodes :
          /\ ret = EBUSY => NumSleeps < MaxBusy
          /\ rs_ret' = ret
          /\ LET ev == ReshardEv(ReshardCmd(rs_old + 1, NoFault), ret)
             IN  IF ret = EBUSY
                 THEN /\ rs_log' = rs_log \o <<ev, Ev("sleep", SleepSeconds, None, NoCmd, {}, "ok")>>
                      /\ UNCHANGED <<rs_pc, rs_exc>>
                 ELSE IF ret = 0
                      THEN /\ rs_log' = Append(rs_log, ev)
                           /\ rs_pc' = "final_stats"
                           /\ UNCHANGED rs_exc
                      ELSE RsRaise(ev, "AssertionError")
    /\ UNCHANGED <<rs_fault, rs_created, rs_grants, rs_objs, rs_old, rs_result>>

\* lines 152-153: the final shard count
RsFinalShardCount ==
    /\ rs_pc = "final_stats"
    /\ \/ \E n \in 0..(MaxShards + 1) :
             LET final_shard_count == NumShardsOf(n)
             IN  IF final_shard_count = rs_old + 1
                 THEN /\ rs_log' = Append(rs_log, StatsEv(final_shard_count, "ok"))
                      /\ rs_pc' = "final_grants"
                      /\ UNCHANGED rs_exc
                 ELSE RsRaise(StatsEv(final_shard_count, "ok"), "AssertionError")
       \/ RsRaise(StatsEv(0, "raised"), "AssertionError")
    /\ UNCHANGED <<rs_fault, rs_created, rs_grants, rs_objs, rs_old, rs_ret, rs_result>>

\* line 155: assert grants == bucket.Acl().grants, after the commit
RsFinalGrants ==
    /\ rs_pc = "final_grants"
    /\ \/ \E g \in Grants :
             IF g = rs_grants
             THEN /\ rs_log' = Append(rs_log, AclEv(g, "ok"))
                  /\ rs_pc' = "cleanup_objs"
                  /\ UNCHANGED rs_exc
             ELSE RsRaise(AclEv(g, "ok"), "AssertionError")
       \/ RsRaise(AclEv(None, "raised"), "ClientError")
    /\ UNCHANGED <<rs_fault, rs_created, rs_grants, rs_objs, rs_old, rs_ret, rs_result>>

\* line 158: finally: bucket.delete_objects of the keys left in objs
RsDeleteObjects ==
    /\ rs_pc = "cleanup_objs"
    /\ LET keys == {rs_objs[i] : i \in DOMAIN rs_objs}
       IN  \/ /\ rs_log' = Append(rs_log, Ev("delete_objects", 0, None, NoCmd, keys, "ok"))
              /\ rs_pc' = "cleanup_bucket"
              /\ UNCHANGED rs_result
           \/ /\ rs_log' = Append(rs_log, Ev("delete_objects", 0, None, NoCmd, keys, "raised"))
              /\ rs_pc' = "done"
              /\ rs_result' = "fail"
    /\ UNCHANGED <<rs_fault, rs_created, rs_grants, rs_objs, rs_old, rs_ret, rs_exc>>

\* line 159: finally: bucket.delete(); then the pending exception propagates
RsDeleteBucket ==
    /\ rs_pc = "cleanup_bucket"
    /\ \/ /\ rs_log' = Append(rs_log, RsEv("bucket_delete", "ok"))
          /\ rs_result' = IF rs_exc = None THEN "pass" ELSE "fail"
       \/ /\ rs_log' = Append(rs_log, RsEv("bucket_delete", "raised"))
          /\ rs_result' = "fail"
    /\ rs_pc' = "done"
    /\ UNCHANGED <<rs_fault, rs_created, rs_grants, rs_objs, rs_old, rs_ret, rs_exc>>

(***************************************************************************)
(* cephadm/tests/fixtures.py: mock_bad_firewalld and a caller using the    *)
(* value it returns.  A Python value is its type and the callables         *)
(* assigned to its attributes (name and number of parameters).             *)
(***************************************************************************)
Unbound == [type |-> "unbound", attrs |-> {}]
NoneValue == [type |-> "NoneType", attrs |-> {}]
MockFirewalld == [type |-> "Mock", attrs |-> {}]
FirewalldMethods == {"enable_service_for", "apply_rules", "open_ports"}

\* f.<name> = lambda <nparams parameters>: raise_bad_firewalld()
SetRaising(f, name, nparams) ==
    [f EXCEPT !.attrs = {a \in @ : a.name # name} \cup {[name |-> name, nparams |-> nparams]}]

\* obj.<name>(<nargs arguments>): what the call does
Invoke(obj, name, nargs) ==
    IF obj.type # "Mock" THEN "AttributeError"
    ELSE IF \E a \in obj.attrs : a.name = name
         THEN LET a == CHOOSE b \in obj.attrs : b.name = name
              IN  IF a.nparams = nargs THEN "Exception: Called bad firewalld" ELSE "TypeError"
         ELSE "returns a Mock"

\* line 39: the caller calls mock_bad_firewalld()
FwCall ==
    /\ fw_pc = "call"
    /\ fw_pc' = "construct"
    /\ UNCHANGED <<fw_f, fw_ret, fw_calls>>

\* lines 43-44: f = mock.Mock(_cephadm.Firewalld)
FwConstruct ==
    /\ fw_pc = "construct"
    /\ fw_f' = MockFirewalld
    /\ fw_pc' = "enable"
    /\ UNCHANGED <<fw_ret, fw_calls>>

\* line 45
FwSetEnableServiceFor ==
    /\ fw_pc = "enable"
    /\ fw_f' = SetRaising(fw_f, "enable_service_for", 1)
    /\ fw_pc' = "apply"
    /\ UNCHANGED <<fw_ret, fw_calls>>

\* line 46
FwSetApplyRules ==
    /\ fw_pc = "apply"
    /\ fw_f' = SetRaising(fw_f, "apply_rules", 0)
    /\ fw_pc' = "open"
    /\ UNCHANGED <<fw_ret, fw_calls>>

\* line 47
FwSetOpenPorts ==
    /\ fw_pc = "open"
    /\ fw_f' = SetRaising(fw_f, "open_ports", 1)
    /\ fw_pc' = "end"
    /\ UNCHANGED <<fw_ret, fw_calls>>

\* after line 47 the body ends without a return statement: the call yields None
FwReturn ==
    /\ fw_pc = "end"
    /\ fw_ret' = NoneValue
    /\ fw_pc' = "returned"
    /\ UNCHANGED <<fw_f, fw_calls>>

\* the caller calls one of the firewall operations on the value it received
FwCallerInvoke ==
    /\ fw_pc = "returned"
    /\ Len(fw_calls) < MaxCalls
    /\ \E name \in FirewalldMethods, nargs \in 0..2 :
          fw_calls' = Append(fw_calls, [name |-> name, nargs |-> nargs,
                                        outcome |-> Invoke(fw_ret, name, nargs)])
    /\ UNCHANGED <<fw_pc, fw_f, fw_ret>>

(***************************************************************************)
(* test_rgw_reshard.py main(): start-up, up to the first reshard command   *)
(***************************************************************************)
EEXIST == 17

MainEv(op, arg, res) == [op |-> op, arg |-> arg, res |-> res]

\* line 168: assert(ret == 0 or errno.EEXIST): the right operand is the
\* constant errno.EEXIST, true when non-zero
UserCreateTolerated(ret) == ret = 0 \/ EEXIST # 0

\* lines 167-168: radosgw-admin user create, then the assertion on its status
MainUserCreate ==
    /\ main_pc = "user_create"
    /\ \E ret \in RetCodes \cup {EEXIST} :
          /\ main_ret' = ret
          /\ main_log' = Append(main_log, MainEv("user_create", 0, ret))
          /\ main_pc' = IF UserCreateTolerated(ret) THEN "connect80" ELSE "AssertionError"

\* the ports tried in turn (lines 188-195)
PortOf(pc) ==
    CASE pc = "connect80" -> 80
      [] pc = "connect8000" -> 8000
      [] pc = "connect443" -> 443
AfterConnectionError(pc) ==
    CASE pc = "connect80" -> "connect8000"
      [] pc = "connect8000" -> "connect443"
      [] pc = "connect443" -> "ConnectionError"

\* lines 170-195: one boto_connect: the bucket listing succeeds, or raises
\* ConnectionError (the next port is tried, the last one propagating it), or
\* raises another error
MainConnect ==
    /\ main_pc \in {"connect80", "connect8000", "connect443"}
    /\ \/ /\ main_log' = Append(main_log, MainEv("connect", PortOf(main_pc), "ok"))
          /\ main_pc' = "create_bucket"
       \/ /\ main_log' = Append(main_log, MainEv("connect", PortOf(main_pc), "ConnectionError"))
          /\ main_pc' = AfterConnectionError(main_pc)
       \/ /\ main_log' = Append(main_log, MainEv("connect", PortOf(main_pc), "ClientError"))
          /\ main_pc' = "ClientError"
    /\ UNCHANGED main_ret

\* lines 198-199: the two buckets are created
MainCreateBuckets ==
    /\ main_pc = "create_bucket"
    /\ \/ /\ main_log' = main_log \o <<MainEv("create_bucket", "a-bucket", "ok"),
                                       MainEv("create_bucket", "myver", "ok")>>
          /\ main_pc' = "load_acl"
       \/ /\ main_log' \in {Append(main_log, MainEv("create_bucket", "a-bucket", "raised")),
                            main_log \o <<MainEv("create_bucket", "a-bucket", "ok"),
                                          MainEv("create_bucket", "myver", "raised")>>}
          /\ main_pc' = "ClientError"
    /\ UNCHANGED main_ret

\* lines 200-203: BucketVersioning, and the two BucketAcl loads
MainLoadAcls ==
    /\ main_pc = "load_acl"
    /\ \/ /\ main_log' = Append(main_log, MainEv("load_acl", 0, "ok"))
          /\ main_pc' = "reshard_add"
       \/ /\ main_log' = Append(main_log, MainEv("load_acl", 0, "raised"))
          /\ main_pc' = "ClientError"
    /\ UNCHANGED main_ret

\* lines 208-209: the shard count, then reshard add with the status checked
\* by exec_cmd (line 44)
MainReshardAdd ==
    /\ main_pc = "reshard_add"
    /\ \E n \in 0..MaxShards, ret \in RetCodes :
          /\ main_log' = Append(main_log, MainEv("reshard_add", NumShardsOf(n) + 1, ret))
          /\ main_pc' = IF ret = 0 THEN "reshard_list" ELSE "AssertionError"
    /\ UNCHANGED main_ret

(***************************************************************************)
(* test_bucket_reshard: the retry loop of lines 140-149, entered after the *)
(* faulted reshard failed.  The reshard lock of the bucket may still be    *)
(* held by the faulted command; it expires on its own.                     *)
(***************************************************************************)
\* a loop that retries after every failure
RetryAgainOnFailure(ret) == ret # 0

\* line 144: if ret == errno.EBUSY
RetryAgain(ret) == ret = EBUSY

\* lines 143-145, 148-149: the reshard without fault injection and the branch
\* on its status
RtRetryReshard ==
    /\ rt_pc = "retry"
    /\ \E ret \in RetCodes :
          /\ ret = EBUSY => rt_lock
          /\ ret = 0 => ~rt_lock
          /\ rt_ret' = ret
          /\ rt_pc' = IF RetryAgain(ret) THEN "sleep"
                      ELSE IF ret = 0 THEN "final_stats"
                      ELSE "AssertionError"
    /\ rt_cmd' = ReshardCmd(rt_old + 1, NoFault)
    /\ rt_slept' = 0
    /\ rt_tries' = Min(rt_tries + 1, MaxBusy + 1)
    /\ UNCHANGED <<rt_old, rt_lock>>

\* lines 146-147: time.sleep(30); continue
RtSleep ==
    /\ rt_pc = "sleep"
    /\ rt_slept' = SleepSeconds
    /\ rt_pc' = "retry"
    /\ UNCHANGED <<rt_old, rt_lock, rt_ret, rt_cmd, rt_tries>>

\* lines 100, 140-141: the reshard lock expires
RtLockExpires ==
    /\ rt_pc \in {"retry", "sleep"}
    /\ rt_lock
    /\ rt_lock' = FALSE
    /\ UNCHANGED <<rt_pc, rt_old, rt_ret, rt_cmd, rt_slept, rt_tries>>

(***************************************************************************)
(* cephadm/tests/fixtures.py: the fixtures cephadm_fs and host_sysfs, both *)
(* working on the one fake filesystem of the test.  Paths are sequences of *)
(* components, file contents are strings.                                  *)
(***************************************************************************)
slot_count == 12
enc_path == <<"sys", "class", "scsi_generic", "sg2", "device", "enclosure", "0:0:1:0">>
dev_path == <<"sys", "class", "scsi_generic", "sg2", "device">>

\* the directories of the cephadm module that cephadm_fs creates, then /sys/block
DATA_DIR == <<"var", "lib", "ceph">>
LOG_DIR == <<"var", "log", "ceph">>
LOCK_DIR == <<"run", "cephadm">>
LOGROTATE_DIR == <<"etc", "logrotate.d">>
UNIT_DIR == <<"etc", "systemd", "system">>
SysBlock == <<"sys", "block">>

\* os.path.join(a, name) for a relative one-component name
path_join(a, name) == Append(a, name)

\* str(n) for n >= 0: the decimal digits of n
DigitChars == <<"0", "1", "2", "3", "4", "5", "6", "7", "8", "9">>
RECURSIVE str(_)
str(n) == IF n < 10 THEN DigitChars[n + 1] ELSE str(n \div 10) \o DigitChars[(n % 10) + 1]

\* the format spec {fill}>{width}: right-aligned, padded on the left
RECURSIVE PadLeft(_, _, _)
PadLeft(s, fill, width) == IF Len(s) >= width THEN s ELSE PadLeft(fill \o s, fill, width)

\* line 113: f'fake{slot_num:0>3}'
VpdContents(slot_num) == "fake" \o PadLeft(str(slot_num), "0", 3)

\* a test that treats every slot as populated
InstalledAlways(slot_num) == TRUE

\* line 109: if slot_num < 6
Installed(slot_num) == slot_num < 6

\* pyfakefs: the proper ancestors of a path, the root included
Parents(p) == {SubSeq(p, 1, k) : k \in 0..(Len(p) - 1)}
FakeExists(p) == p \in fake_dirs \/ p \in DOMAIN fake_files
CanCreate(p) == ~FakeExists(p) /\ \A q \in Parents(p) : q \notin DOMAIN fake_files

\* fs.create_dir(p): creates p and its missing ancestors
create_dir(p) ==
    /\ fake_dirs' = fake_dirs \cup Parents(p) \cup {p}
    /\ UNCHANGED fake_files

\* fs.create_file(p, contents=c): creates the missing ancestors and the file
create_file(p, c) ==
    /\ fake_dirs' = fake_dirs \cup Parents(p)
    /\ fake_files' = [q \in DOMAIN fake_files \cup {p} |-> IF q = p THEN c ELSE fake_files[q]]

\* ---- cephadm_fs
CfsDir(pc) ==
    CASE pc = "data_dir" -> DATA_DIR
      [] pc = "log_dir" -> LOG_DIR
      [] pc = "lock_dir" -> LOCK_DIR
      [] pc = "logrotate_dir" -> LOGROTATE_DIR
      [] pc = "unit_dir" -> UNIT_DIR
      [] pc = "sys_block" -> SysBlock
CfsAfter(pc) ==
    CASE pc = "data_dir" -> "log_dir"
      [] pc = "log_dir" -> "lock_dir"
      [] pc = "lock_dir" -> "logrotate_dir"
      [] pc = "logrotate_dir" -> "unit_dir"
      [] pc = "unit_dir" -> "sys_block"
      [] pc = "sys_block" -> "yielded"

\* lines 64-81: the fixture is set up for a test that requests it
CephadmFsEnter ==
    /\ cfs_pc = "unused"
    /\ sysfs_pc \in {"unused", "yielded"}
    /\ cfs_pc' = "data_dir"
    /\ UNCHANGED <<sysfs_pc, sysfs_slot_num, fake_dirs, fake_files>>

\* lines 83-90: one fs.create_dir; after the last one the fixture yields fs
CephadmFsCreateDir ==
    /\ cfs_pc \in {"data_dir", "log_dir", "lock_dir", "logrotate_dir", "unit_dir", "sys_block"}
    /\ IF CanCreate(CfsDir(cfs_pc))
       THEN /\ create_dir(CfsDir(cfs_pc))
            /\ cfs_pc' = CfsAfter(cfs_pc)
       ELSE /\ cfs_pc' = "FileExistsError"
            /\ UNCHANGED <<fake_dirs, fake_files>>
    /\ UNCHANGED <<sysfs_pc, sysfs_slot_num>>

\* ---- host_sysfs
\* one fs.create_file of the fixture, FileExistsError ending the set-up
SysfsCreateFile(p, c, next) ==
    IF CanCreate(p)
    THEN /\ create_file(p, c)
         /\ sysfs_pc' = next
    ELSE /\ sysfs_pc' = "FileExistsError"
         /\ UNCHANGED <<fake_dirs, fake_files>>

slot_dir == path_join(enc_path, str(sysfs_slot_num))
slot_dev == path_join(slot_dir, "device")

\* lines 93-98: the fixture is set up for a test that requests it
HostSysfsEnter ==
    /\ sysfs_pc = "unused"
    /\ cfs_pc \in {"unused", "yielded"}
    /\ sysfs_pc' = "dev_dir"
    /\ UNCHANGED <<cfs_pc, sysfs_slot_num, fake_dirs, fake_files>>

\* line 99
SysfsCreateDevDir ==
    /\ sysfs_pc = "dev_dir"
    /\ IF CanCreate(dev_path)
       THEN /\ create_dir(dev_path)
            /\ sysfs_pc' = "vendor"
       ELSE /\ sysfs_pc' = "FileExistsError"
            /\ UNCHANGED <<fake_dirs, fake_files>>
    /\ UNCHANGED <<cfs_pc, sysfs_slot_num>>

\* line 100
SysfsCreateVendor ==
    /\ sysfs_pc = "vendor"
    /\ SysfsCreateFile(path_join(dev_path, "vendor"), "EnclosuresInc", "model")
    /\ UNCHANGED <<cfs_pc, sysfs_slot_num>>

\* line 101
SysfsCreateModel ==
    /\ sysfs_pc = "model"
    /\ SysfsCreateFile(path_join(dev_path, "model"), "D12", "id")
    /\ UNCHANGED <<cfs_pc, sysfs_slot_num>>

\* line 102
SysfsCreateId ==
    /\ sysfs_pc = "id"
    /\ SysfsCreateFile(path_join(enc_path, "id"), "1", "components")
    /\ UNCHANGED <<cfs_pc, sysfs_slot_num>>

\* lines 103-104: the components file, then the loop starts with slot_num = 0
SysfsCreateComponents ==
    /\ sysfs_pc = "components"
    /\ SysfsCreateFile(path_join(enc_path, "components"), str(slot_count), "locate")
    /\ sysfs_slot_num' = 0
    /\ UNCHANGED cfs_pc

\* line 106
SysfsSlotLocate ==
    /\ sysfs_pc = "locate"
    /\ SysfsCreateFile(path_join(slot_dir, "locate"), "0", "fault")
    /\ UNCHANGED <<cfs_pc, sysfs_slot_num>>

\* line 107
SysfsSlotFault ==
    /\ sysfs_pc = "fault"
    /\ SysfsCreateFile(path_join(slot_dir, "fault"), "0", "slot")
    /\ UNCHANGED <<cfs_pc, sysfs_slot_num>>

\* line 108
SysfsSlotSlot ==
    /\ sysfs_pc = "slot"
    /\ SysfsCreateFile(path_join(slot_dir, "slot"), str(sysfs_slot_num), "status")
    /\ UNCHANGED <<cfs_pc, sysfs_slot_num>>

\* lines 104, 117: the next pass of the loop, or the yield after the last slot
SysfsNextSlot(pc) ==
    IF pc = "next" /\ sysfs_slot_num + 1 < slot_count
    THEN /\ sysfs_pc' = "locate"
         /\ sysfs_slot_num' = sysfs_slot_num + 1
    ELSE /\ sysfs_pc' = IF pc = "next" THEN "yielded" ELSE pc
         /\ UNCHANGED sysfs_slot_num

\* lines 109-110: the status of a populated slot
SysfsSlotStatusOk ==
    /\ sysfs_pc = "status"
    /\ Installed(sysfs_slot_num)
    /\ SysfsCreateFile(path_join(slot_dir, "status"), "Ok", "device")
    /\ UNCHANGED <<cfs_pc, sysfs_slot_num>>

\* lines 111-112
SysfsSlotDevice ==
    /\ sysfs_pc = "device"
    /\ IF CanCreate(slot_dev)
       THEN /\ create_dir(slot_dev)
            /\ sysfs_pc' = "vpd"
       ELSE /\ sysfs_pc' = "FileExistsError"
            /\ UNCHANGED <<fake_dirs, fake_files>>
    /\ UNCHANGED <<cfs_pc, sysfs_slot_num>>

\* line 113, the last statement of the pass for a populated slot
SysfsSlotVpd ==
    /\ sysfs_pc = "vpd"
    /\ IF CanCreate(path_join(slot_dev, "vpd_pg80"))
       THEN /\ create_file(path_join(slot_dev, "vpd_pg80"), VpdContents(sysfs_slot_num))
            /\ SysfsNextSlot("next")
       ELSE /\ SysfsNextSlot("FileExistsError")
            /\ UNCHANGED <<fake_dirs, fake_files>>
    /\ UNCHANGED cfs_pc

\* lines 114-115, the last statement of the pass for an empty slot
SysfsSlotNotInstalled ==
    /\ sysfs_pc = "status"
    /\ ~Installed(sysfs_slot_num)
    /\ IF CanCreate(path_join(slot_dir, "status"))
       THEN /\ create_file(path_join(slot_dir, "status"), "not installed")
            /\ SysfsNextSlot("next")
       ELSE /\ SysfsNextSlot("FileExistsError")
            /\ UNCHANGED <<fake_dirs, fake_files>>
    /\ UNCHANGED cfs_pc

SysIdle ==
    /\ cfs_pc = "unused"
    /\ sysfs_pc = "unused"
    /\ sysfs_slot_num = 0
    /\ fake_dirs = {<<>>}
    /\ fake_files = <<>>

MonIdle ==
    /\ mon_pc = "idle"
    /\ mon_keyring = <<>>
    /\ mon_moncap = <<>>
    /\ mon_fsls = <<>>
    /\ mon_admin = NotFetched
    /\ mon_idx = 0
    /\ mon_result = "running"

MdsIdle ==
    /\ mds_pc = "idle"
    /\ mds_mounts = <<>>
    /\ mds_testpath = <<>>
    /\ mds_test_set = <<>>
    /\ mds_perm = None
    /\ mds_mntpt = PyNone
    /\ mds_idx = 0
    /\ mds_cmdargs = <<>>
    /\ mds_log = <<>>
    /\ mds_result = "running"

CcIdle ==
    /\ cc_pc = "idle"
    /\ cc_dry_run = FALSE
    /\ cc_targets = <<>>
    /\ cc_ti = 0
    /\ cc_running = <<>>
    /\ cc_di = 0
    /\ cc_dump = EmptyMap
    /\ cc_ci = 0
    /\ cc_expected = {}
    /\ cc_seen = {}
    /\ cc_result = "running"
    /\ cc_unseen = {}
    /\ cc_hist = <<>>
    /\ cc_last = NoLookup

RsIdle ==
    /\ rs_pc = "idle"
    /\ rs_fault = NoFault
    /\ rs_created = FALSE
    /\ rs_grants = None
    /\ rs_objs = <<>>
    /\ rs_old = 0
    /\ rs_ret = 0
    /\ rs_log = <<>>
    /\ rs_exc = None
    /\ rs_result = "running"

FwIdle ==
    /\ fw_pc = "idle"
    /\ fw_f = Unbound
    /\ fw_ret = Unbound
    /\ fw_calls = <<>>

MainIdle ==
    /\ main_pc = "idle"
    /\ main_ret = 0
    /\ main_log = <<>>

RtIdle ==
    /\ rt_pc = "idle"
    /\ rt_old = 0
    /\ rt_lock = FALSE
    /\ rt_ret = 0
    /\ rt_cmd = NoCmd
    /\ rt_slept = 0
    /\ rt_tries = 0

ExtIdle == SysIdle /\ FwIdle /\ MainIdle /\ RtIdle

(***************************************************************************)
(* Specification of _get_fsnames_from_moncap called on any capability      *)
(* string.                                                                 *)
(***************************************************************************)
InitFsnames ==
    /\ \E m \in Moncaps :
          /\ fs_pc = "loop"
          /\ fs_input = m
          /\ fs_moncap = m
          /\ fs_fsnames = <<>>
          /\ fs_iters = 0
    /\ MonIdle /\ MdsIdle /\ CcIdle /\ RsIdle /\ ExtIdle

NextFsnames ==
    \/ GetFsnamesIter /\ UNCHANGED <<monVars, mdsVars, ccVars, rsVars, extVars>>
    \/ GetFsnamesReturn /\ UNCHANGED <<monVars, mdsVars, ccVars, rsVars, extVars>>

SpecFsnames == InitFsnames /\ [][NextFsnames]_vars

(***************************************************************************)
(* Specification of run_mon_cap_tests for any client keyring.              *)
(***************************************************************************)
InitMon ==
    /\ mon_pc = "start"
    /\ mon_keyring \in {KeyringOf(m) : m \in Moncaps} \cup {KeyringNoMon}
    /\ mon_moncap = <<>>
    /\ mon_fsls = <<>>
    /\ mon_admin = NotFetched
    /\ mon_idx = 0
    /\ mon_result = "running"
    /\ FsIdle /\ MdsIdle /\ CcIdle /\ RsIdle /\ ExtIdle

NextMon ==
    \/ MonExtract /\ UNCHANGED <<mdsVars, ccVars, rsVars, extVars>>
    \/ MonCompareAdmin /\ UNCHANGED <<mdsVars, ccVars, rsVars, extVars>>
    \/ MonParse /\ UNCHANGED <<mdsVars, ccVars, rsVars, extVars>>
    \/ GetFsnamesIter /\ UNCHANGED <<monVars, mdsVars, ccVars, rsVars, extVars>>
    \/ GetFsnamesReturn /\ UNCHANGED <<monVars, mdsVars, ccVars, rsVars, extVars>>
    \/ MonAssertIn /\ UNCHANGED <<mdsVars, ccVars, rsVars, extVars>>
    \/ MonReturn /\ UNCHANGED <<mdsVars, ccVars, rsVars, extVars>>

SpecMon == InitMon /\ [][NextMon]_vars

(***************************************************************************)
(* C6.  _get_fsnames_from_moncap returns exactly the names that follow     *)
(* each occurrence of the fsname= marker in the capability string (the     *)
(* text from the end of the marker up to the next comma or the end of the  *)
(* string): no empty or spurious entry, and no named filesystem left out.  *)
(***************************************************************************)
\* the name that follows the marker found at 0-based offset at
NameAfter(s, at) ==
    LET rest == SliceFrom(s, at + Len(Marker))
    IN  IF Contains(rest, Comma) THEN Slice(rest, 0, Find(rest, Comma)) ELSE rest

\* the set of names the capability string names
NamedIn(s) == {NameAfter(s, at) : at \in {i \in 0..Len(s) : MatchAt(s, Marker, i)}}

Range(f) == {f[i] : i \in DOMAIN f}

C6_ExactlyTheNamedFilesystems ==
    fs_pc = "done" => Range(fs_fsnames) = NamedIn(fs_input)

(***************************************************************************)
(* C7.  run_mon_cap_tests passes only if: with no fsname= in the mon cap,  *)
(* the client's `fs ls` output equals the administrator's; with fsname=    *)
(* in the mon cap, 'name: <fsname>' occurs in the client's output for      *)
(* every filesystem the cap names, and the administrator's listing is not  *)
(* fetched.                                                                *)
(***************************************************************************)
C7_PassOnlyIfFiltered ==
    mon_result = "pass" =>
        IF ~Contains(mon_moncap, Marker)
        THEN mon_fsls = mon_admin
        ELSE /\ \A n \in NamedIn(mon_moncap) : Contains(mon_fsls, NamePrefix \o n)
             /\ mon_admin = NotFetched

(***************************************************************************)
(* Specification of CheckCounter.end for any configuration and any         *)
(* daemons.                                                                *)
(***************************************************************************)
TargetsOf(n) ==
    {t \in [1..n -> [type : {"mds", "osd"}, counters : CounterLists]] :
        \A i \in 1..n : t[i].type = DaemonTypes[i]}

InitCC ==
    /\ cc_pc = "type"
    /\ cc_dry_run \in BOOLEAN
    /\ cc_targets \in TargetsOf(1) \cup TargetsOf(2)
    /\ cc_ti = 1
    /\ cc_running = <<>>
    /\ cc_di = 0
    /\ cc_dump = EmptyMap
    /\ cc_ci = 0
    /\ cc_expected = {}
    /\ cc_seen = {}
    /\ cc_result = "running"
    /\ cc_unseen = {}
    /\ cc_hist = <<>>
    /\ cc_last = NoLookup
    /\ FsIdle /\ MonIdle /\ MdsIdle /\ RsIdle /\ ExtIdle

NextCC ==
    \/ CCStartType /\ UNCHANGED <<fsVars, monVars, mdsVars, rsVars, extVars>>
    \/ CCReturn /\ UNCHANGED <<fsVars, monVars, mdsVars, rsVars, extVars>>
    \/ CCSkipDaemon /\ UNCHANGED <<fsVars, monVars, mdsVars, rsVars, extVars>>
    \/ CCNoResponse /\ UNCHANGED <<fsVars, monVars, mdsVars, rsVars, extVars>>
    \/ CCPerfDump /\ UNCHANGED <<fsVars, monVars, mdsVars, rsVars, extVars>>
    \/ CCCounter /\ UNCHANGED <<fsVars, monVars, mdsVars, rsVars, extVars>>
    \/ CCNextDaemon /\ UNCHANGED <<fsVars, monVars, mdsVars, rsVars, extVars>>
    \/ CCEndType /\ UNCHANGED <<fsVars, monVars, mdsVars, rsVars, extVars>>

SpecCC == InitCC /\ [][NextCC]_vars

(***************************************************************************)
(* C1.  With dry_run false, if end() completes without raising, then for   *)
(* every daemon type of the configuration and every counter specification  *)
(* of that type, at least one daemon of the type reported a value greater  *)
(* than or equal to the specification's minimum.                           *)
(***************************************************************************)
MetBySome(t, k) == k \in cc_hist[t].met

C1_CompletesOnlyIfEveryCounterMet ==
    (cc_result = "ok" /\ ~cc_dry_run) =>
        \A t \in 1..Len(cc_targets) : \A k \in 1..Len(cc_targets[t].counters) :
            t \in DOMAIN cc_hist /\ MetBySome(t, k)

(***************************************************************************)
(* C2.  A counter is satisfied by any one daemon: a counter specification  *)
(* that some running daemon of the type met (reported a value >= its       *)
(* minimum) is never named by the unseen-counter error of that type,       *)
(* whatever the other daemons of the type report and in whatever order     *)
(* they are visited.                                                       *)
(***************************************************************************)
C2_MetCounterNeverUnseen ==
    \A t \in DOMAIN cc_hist : \A k \in cc_hist[t].met :
        ~(cc_result = "RuntimeError" /\ cc_ti = t
            /\ cc_targets[t].counters[k].name \in cc_unseen)

\* the unseen check of the first type ran, with dry_run false, after one daemon met
\* a counter and a daemon visited later did not
C2_Witness ==
    /\ ~cc_dry_run
    /\ cc_pc = "type"
    /\ cc_ti = 2
    /\ cc_hist[1].late # {}

(***************************************************************************)
(* C3.  With dry_run true end() never raises the unseen-counter error,     *)
(* and when it ends it has processed every configured daemon type and      *)
(* queried the perf dump of every running daemon of each.                  *)
(***************************************************************************)
C3_DryRunQueriesEveryRunningDaemon ==
    cc_dry_run =>
        /\ cc_result # "RuntimeError"
        /\ cc_pc = "done" =>
              /\ Len(cc_hist) = Len(cc_targets)
              /\ \A t \in DOMAIN cc_hist : cc_hist[t].unqueried = {}

(***************************************************************************)
(* C4.  A lookup in which some segment of the dotted name is not found     *)
(* while descending the dump ends without raising and adds nothing to the  *)
(* seen set.                                                               *)
(***************************************************************************)
C4_MissingSegmentTolerated ==
    cc_last.missing => (~cc_last.raised /\ ~cc_last.added)

(***************************************************************************)
(* Specification of write_test_files followed by run_mds_cap_tests.        *)
(***************************************************************************)
InitMds ==
    /\ mds_pc = "idle"
    /\ mds_mounts \in MountLists
    /\ mds_testpath \in Testpaths
    /\ mds_test_set = <<>>
    /\ mds_perm = None
    /\ mds_mntpt = PyNone
    /\ mds_idx = 0
    /\ mds_cmdargs = <<>>
    /\ mds_log = <<>>
    /\ mds_result = "running"
    /\ FsIdle /\ MonIdle /\ CcIdle /\ RsIdle /\ ExtIdle

NextMds ==
    \/ WriteTestFilesCall /\ UNCHANGED <<fsVars, monVars, ccVars, rsVars, extVars>>
    \/ WriteTestFile /\ UNCHANGED <<fsVars, monVars, ccVars, rsVars, extVars>>
    \/ WriteTestFilesReturn /\ UNCHANGED <<fsVars, monVars, ccVars, rsVars, extVars>>
    \/ RunMdsCapTestsCall /\ UNCHANGED <<fsVars, monVars, ccVars, rsVars, extVars>>
    \/ ReadCheck /\ UNCHANGED <<fsVars, monVars, ccVars, rsVars, extVars>>
    \/ WriteTestDispatch /\ UNCHANGED <<fsVars, monVars, ccVars, rsVars, extVars>>
    \/ PosWriteCheck /\ UNCHANGED <<fsVars, monVars, ccVars, rsVars, extVars>>
    \/ NegWriteCheck /\ UNCHANGED <<fsVars, monVars, ccVars, rsVars, extVars>>
    \/ RunMdsCapTestsReturn /\ UNCHANGED <<fsVars, monVars, ccVars, rsVars, extVars>>

SpecMds == InitMds /\ [][NextMds]_vars

(***************************************************************************)
(* C5.  run_mds_cap_tests permission gating.  Every write attempt comes    *)
(* after the read check of every recorded file.  With perm 'rw' no         *)
(* negative write command is issued and a passing run has written and      *)
(* read back every recorded file; with perm 'r' nothing is written through *)
(* write_file and a passing run has issued, for every recorded file, one   *)
(* negative write command on that file alone, expecting exit status 1 and  *)
(* 'permission denied' or 'operation not permitted'; with any other perm   *)
(* no write of either kind is attempted, the run never passes, and it      *)
(* ends with RuntimeError once the read checks have passed.                *)
(***************************************************************************)
RunLog == SelectSeq(mds_log, LAMBDA e : e.by = "run_mds_cap_tests")
IsWriteAttempt(e) == e.op \in {"write_file", "negtestcmd"}
ReadOf(t) == Call("run_mds_cap_tests", "read_file", t.mount, <<t.path>>, "ok")
WriteOf(t) == Call("run_mds_cap_tests", "write_file", t.mount, <<t.path>>, "ok")
NegOf(t) ==
    [by |-> "run_mds_cap_tests", op |-> "negtestcmd", mount |-> t.mount, args |-> <<t.path>>,
     expect |-> [retval |-> 1, errmsgs |-> {"permission denied", "operation not permitted"}],
     res |-> "ok"]
NumFiles == Len(mds_test_set)

C5_PermissionGating ==
    /\ \A j \in DOMAIN RunLog :
          IsWriteAttempt(RunLog[j]) =>
              /\ j > NumFiles
              /\ \A i \in 1..NumFiles : RunLog[i] = ReadOf(mds_test_set[i])
    /\ mds_perm = "rw" =>
          /\ \A j \in DOMAIN RunLog : RunLog[j].op # "negtestcmd"
          /\ mds_result = "pass" =>
                /\ Len(RunLog) = 3 * NumFiles
                /\ \A i \in 1..NumFiles :
                      /\ RunLog[NumFiles + 2 * i - 1] = WriteOf(mds_test_set[i])
                      /\ RunLog[NumFiles + 2 * i] = ReadOf(mds_test_set[i])
    /\ mds_perm = "r" =>
          /\ \A j \in DOMAIN RunLog : RunLog[j].op # "write_file"
          /\ mds_result = "pass" =>
                /\ Len(RunLog) = 2 * NumFiles
                /\ \A i \in 1..NumFiles : RunLog[NumFiles + i] = NegOf(mds_test_set[i])
    /\ mds_perm \notin {"rw", "r", None} =>
          /\ \A j \in DOMAIN RunLog : ~IsWriteAttempt(RunLog[j])
          /\ mds_result # "pass"
          /\ (mds_pc = "done" /\ \A j \in DOMAIN RunLog : RunLog[j].res = "ok")
                => mds_result = "RuntimeError"

\* a passing run with perm 'r' over two recorded files
C5_Witness ==
    /\ mds_result = "pass"
    /\ mds_perm = "r"
    /\ NumFiles = 2
    /\ Len(RunLog) = 4

(***************************************************************************)
(* Specification of one test_bucket_reshard scenario, for any fault and    *)
(* any behaviour of the cluster.                                           *)
(***************************************************************************)
InitReshard ==
    /\ rs_pc = "create"
    /\ rs_fault \in Faults
    /\ rs_created = FALSE
    /\ rs_grants = None
    /\ rs_objs = <<>>
    /\ rs_old = 0
    /\ rs_ret = 0
    /\ rs_log = <<>>
    /\ rs_exc = None
    /\ rs_result = "running"
    /\ FsIdle /\ MonIdle /\ MdsIdle /\ CcIdle /\ ExtIdle

NextReshard ==
    \/ RsCreateBucket /\ UNCHANGED <<fsVars, monVars, mdsVars, ccVars, extVars>>
    \/ RsCaptureGrants /\ UNCHANGED <<fsVars, monVars, mdsVars, ccVars, extVars>>
    \/ RsPutObject /\ UNCHANGED <<fsVars, monVars, mdsVars, ccVars, extVars>>
    \/ RsOldShardCount /\ UNCHANGED <<fsVars, monVars, mdsVars, ccVars, extVars>>
    \/ RsFaultedReshard /\ UNCHANGED <<fsVars, monVars, mdsVars, ccVars, extVars>>
    \/ RsCurShardCount /\ UNCHANGED <<fsVars, monVars, mdsVars, ccVars, extVars>>
    \/ RsDeleteOne /\ UNCHANGED <<fsVars, monVars, mdsVars, ccVars, extVars>>
    \/ RsRecheckGrants /\ UNCHANGED <<fsVars, monVars, mdsVars, ccVars, extVars>>
    \/ RsRetryReshard /\ UNCHANGED <<fsVars, monVars, mdsVars, ccVars, extVars>>
    \/ RsFinalShardCount /\ UNCHANGED <<fsVars, monVars, mdsVars, ccVars, extVars>>
    \/ RsFinalGrants /\ UNCHANGED <<fsVars, monVars, mdsVars, ccVars, extVars>>
    \/ RsDeleteObjects /\ UNCHANGED <<fsVars, monVars, mdsVars, ccVars, extVars>>
    \/ RsDeleteBucket /\ UNCHANGED <<fsVars, monVars, mdsVars, ccVars, extVars>>

SpecReshard == InitReshard /\ [][NextReshard]_vars

(***************************************************************************)
(* C8.  A scenario whose injected fault is not ECANCELED passes only if,   *)
(* in this order: the faulted reshard command returned a status that is    *)
(* neither 0 nor EBUSY; the shard count read right after it equals the     *)
(* count read before it; the delete of one uploaded object succeeded; the  *)
(* ACL grants equal the grants captured at bucket creation; after zero or  *)
(* more un-faulted retries that returned EBUSY, each followed by a wait,   *)
(* an un-faulted reshard returned 0; and then the shard count equals the   *)
(* old count plus one and the ACL grants still equal the captured grants.  *)
(***************************************************************************)
CanceledFault == rs_fault.has_code /\ rs_fault.error_code = ECANCELED
Unfaulted(cmd) ==
    cmd.inject_error_at = None /\ cmd.inject_abort_at = None /\ ~cmd.has_error_code
Faulted(cmd) ==
    /\ cmd.inject_error_at = rs_fault.error_at
    /\ cmd.inject_abort_at = rs_fault.abort_at
    /\ cmd.has_error_code = rs_fault.has_code
    /\ cmd.has_error_code => cmd.inject_error_code = rs_fault.error_code
Uploaded == 2 + NumObjs
CapturedGrants == rs_log[2].g

C8_GenericFaultPassOnlyIf ==
    (rs_result = "pass" /\ ~CanceledFault) =>
        LET L == rs_log
            b == Uploaded
            e == Len(rs_log)
        IN  /\ e >= b + 10
            /\ L[b + 1].op = "bucket_stats" /\ L[b + 1].res = "ok"
            /\ L[b + 2].op = "reshard" /\ Faulted(L[b + 2].cmd)
            /\ L[b + 2].cmd.num_shards = L[b + 1].n + 1
            /\ L[b + 2].n # 0 /\ L[b + 2].n # EBUSY
            /\ L[b + 3].op = "bucket_stats" /\ L[b + 3].res = "ok" /\ L[b + 3].n = L[b + 1].n
            /\ L[b + 4].op = "delete_object" /\ L[b + 4].res = "ok"
            /\ L[b + 5].op = "acl_grants" /\ L[b + 5].res = "ok" /\ L[b + 5].g = CapturedGrants
            /\ \A i \in (b + 6)..(e - 5) :
                  IF (i - b) % 2 = 0
                  THEN /\ L[i].op = "reshard" /\ Unfaulted(L[i].cmd) /\ L[i].n = EBUSY
                       /\ L[i].cmd.num_shards = L[b + 1].n + 1
                  ELSE L[i].op = "sleep"
            /\ (e - 5 - b) % 2 = 1
            /\ L[e - 4].op = "reshard" /\ Unfaulted(L[e - 4].cmd) /\ L[e - 4].n = 0
            /\ L[e - 4].cmd.num_shards = L[b + 1].n + 1
            /\ L[e - 3].op = "bucket_stats" /\ L[e - 3].res = "ok" /\ L[e - 3].n = L[b + 1].n + 1
            /\ L[e - 2].op = "acl_grants" /\ L[e - 2].res = "ok" /\ L[e - 2].g = CapturedGrants

\* a passing scenario with a generic fault whose retry loop met EBUSY
C8_Witness ==
    /\ rs_result = "pass"
    /\ ~CanceledFault
    /\ NumSleeps >= 1

(***************************************************************************)
(* C9.  With injected error code ECANCELED at most one reshard command is  *)
(* issued in the whole scenario, with no wait and no object delete before  *)
(* cleanup; the scenario passes only if exactly one was issued, it carried *)
(* the fault, it returned 0, and the shard count read next equals the old  *)
(* count plus one with the ACL grants equal to the captured grants.        *)
(***************************************************************************)
Reshards == SelectSeq(rs_log, LAMBDA ev : ev.op = "reshard")

C9_CanceledFaultSingleReshard ==
    CanceledFault =>
        /\ Len(Reshards) <= 1
        /\ \A i \in DOMAIN rs_log : rs_log[i].op \notin {"sleep", "delete_object"}
        /\ rs_result = "pass" =>
              LET L == rs_log
                  b == Uploaded
              IN  /\ Len(L) = b + 6
                  /\ Len(Reshards) = 1
                  /\ L[b + 2].op = "reshard" /\ Faulted(L[b + 2].cmd) /\ L[b + 2].n = 0
                  /\ L[b + 2].cmd.num_shards = L[b + 1].n + 1
                  /\ L[b + 3].op = "bucket_stats" /\ L[b + 3].n = L[b + 1].n + 1
                  /\ L[b + 4].op = "acl_grants" /\ L[b + 4].g = CapturedGrants

\* a passing scenario with ECANCELED injected
C9_Witness ==
    /\ rs_result = "pass"
    /\ CanceledFault
    /\ Len(Reshards) = 1

(***************************************************************************)
(* C10.  Whenever the scenario has created its bucket, then however it     *)
(* ends, the batch delete of all test objects still present and then the   *)
(* delete of the bucket are both issued, in that order, before it returns  *)
(* or propagates the failure.                                              *)
(***************************************************************************)
\* the keys in the bucket after the first n calls
Present(n) ==
    {k \in 0..(NumObjs - 1) :
        /\ \E i \in 1..n : rs_log[i].op = "put_object" /\ rs_log[i].res = "ok" /\ rs_log[i].n = k
        /\ ~\E i \in 1..n :
              rs_log[i].op = "delete_object" /\ rs_log[i].res = "ok" /\ rs_log[i].n = k}

C10_CleanupAlwaysIssued ==
    (rs_pc = "done" /\ rs_created) =>
        LET e == Len(rs_log)
        IN  /\ e >= 3
            /\ rs_log[e - 1].op = "delete_objects"
            /\ rs_log[e - 1].keys = Present(e - 2)
            /\ rs_log[e].op = "bucket_delete"

(***************************************************************************)
(* Specification of a test that requests cephadm_fs, host_sysfs or both,   *)
(* in either order.                                                        *)
(***************************************************************************)
CoreIdle == FsIdle /\ MonIdle /\ MdsIdle /\ CcIdle /\ RsIdle

InitSysfs ==
    /\ SysIdle
    /\ CoreIdle /\ FwIdle /\ MainIdle /\ RtIdle

NextSysfs ==
    \/ CephadmFsEnter /\ UNCHANGED <<coreVars, fwVars, mainVars, rtVars>>
    \/ CephadmFsCreateDir /\ UNCHANGED <<coreVars, fwVars, mainVars, rtVars>>
    \/ HostSysfsEnter /\ UNCHANGED <<coreVars, fwVars, mainVars, rtVars>>
    \/ SysfsCreateDevDir /\ UNCHANGED <<coreVars, fwVars, mainVars, rtVars>>
    \/ SysfsCreateVendor /\ UNCHANGED <<coreVars, fwVars, mainVars, rtVars>>
    \/ SysfsCreateModel /\ UNCHANGED <<coreVars, fwVars, mainVars, rtVars>>
    \/ SysfsCreateId /\ UNCHANGED <<coreVars, fwVars, mainVars, rtVars>>
    \/ SysfsCreateComponents /\ UNCHANGED <<coreVars, fwVars, mainVars, rtVars>>
    \/ SysfsSlotLocate /\ UNCHANGED <<coreVars, fwVars, mainVars, rtVars>>
    \/ SysfsSlotFault /\ UNCHANGED <<coreVars, fwVars, mainVars, rtVars>>
    \/ SysfsSlotSlot /\ UNCHANGED <<coreVars, fwVars, mainVars, rtVars>>
    \/ SysfsSlotStatusOk /\ UNCHANGED <<coreVars, fwVars, mainVars, rtVars>>
    \/ SysfsSlotDevice /\ UNCHANGED <<coreVars, fwVars, mainVars, rtVars>>
    \/ SysfsSlotVpd /\ UNCHANGED <<coreVars, fwVars, mainVars, rtVars>>
    \/ SysfsSlotNotInstalled /\ UNCHANGED <<coreVars, fwVars, mainVars, rtVars>>

SpecSysfs == InitSysfs /\ [][NextSysfs]_vars

(***************************************************************************)
(* C11.  Once host_sysfs has yielded, the enclosure directory holds        *)
(* exactly the 12 slot directories 0..11; its components file reads '12';  *)
(* every slot has the files locate, fault, status and slot, the latter     *)
(* holding the slot's own number; slots 0-5 have status 'Ok' and a file    *)
(* device/vpd_pg80 reading 'fake000' .. 'fake005'; slots 6-11 have status  *)
(* 'not installed' and nothing named device.                               *)
(***************************************************************************)
SlotNames == <<"0", "1", "2", "3", "4", "5", "6", "7", "8", "9", "10", "11">>
VpdNames == <<"fake000", "fake001", "fake002", "fake003", "fake004", "fake005">>
EncPath == <<"sys", "class", "scsi_generic", "sg2", "device", "enclosure", "0:0:1:0">>
SlotPath(i) == Append(EncPath, SlotNames[i])
IsFile(p, c) == p \in DOMAIN fake_files /\ fake_files[p] = c
Under(p, d) == Len(p) > Len(d) /\ SubSeq(p, 1, Len(d)) = d

C11_EnclosureTree ==
    sysfs_pc = "yielded" =>
        /\ {d \in fake_dirs : Len(d) = Len(EncPath) + 1 /\ Under(d, EncPath)}
               = {SlotPath(i) : i \in 1..12}
        /\ IsFile(Append(EncPath, "components"), "12")
        /\ \A i \in 1..12 :
              /\ IsFile(Append(SlotPath(i), "locate"), "0")
              /\ IsFile(Append(SlotPath(i), "fault"), "0")
              /\ IsFile(Append(SlotPath(i), "slot"), SlotNames[i])
              /\ IsFile(Append(SlotPath(i), "status"), IF i <= 6 THEN "Ok" ELSE "not installed")
              /\ IF i <= 6
                 THEN /\ Append(SlotPath(i), "device") \in fake_dirs
                      /\ IsFile(Append(Append(SlotPath(i), "device"), "vpd_pg80"), VpdNames[i])
                 ELSE \A p \in fake_dirs \cup DOMAIN fake_files :
                         p # Append(SlotPath(i), "device")
                             /\ ~Under(p, Append(SlotPath(i), "device"))

C11_Witness ==
    /\ sysfs_pc = "yielded"
    /\ cfs_pc = "yielded"
    /\ Append(SlotPath(6), "device") \in fake_dirs
    /\ IsFile(Append(SlotPath(12), "status"), "not installed")

(***************************************************************************)
(* Specification of the start-up of main(), for any exit status of the     *)
(* commands and any behaviour of the gateway.                              *)
(***************************************************************************)
InitMain ==
    /\ main_pc = "user_create"
    /\ main_ret = 0
    /\ main_log = <<>>
    /\ CoreIdle /\ SysIdle /\ FwIdle /\ RtIdle

NextMain ==
    \/ MainUserCreate /\ UNCHANGED <<coreVars, sysVars, fwVars, rtVars>>
    \/ MainConnect /\ UNCHANGED <<coreVars, sysVars, fwVars, rtVars>>
    \/ MainCreateBuckets /\ UNCHANGED <<coreVars, sysVars, fwVars, rtVars>>
    \/ MainLoadAcls /\ UNCHANGED <<coreVars, sysVars, fwVars, rtVars>>
    \/ MainReshardAdd /\ UNCHANGED <<coreVars, sysVars, fwVars, rtVars>>

SpecMain == InitMain /\ [][NextMain]_vars

(***************************************************************************)
(* C12.  When the user-create command exits with a status other than 0     *)
(* and EEXIST, main() ends with a failed assertion and has issued nothing  *)
(* after that command: no connection attempt, no bucket creation, no       *)
(* reshard command.                                                        *)
(***************************************************************************)
C12_OtherStatusAborts ==
    (main_pc # "user_create" /\ main_ret \notin {0, EEXIST}) =>
        /\ main_pc = "AssertionError"
        /\ Len(main_log) = 1

(***************************************************************************)
(* Specification of the retry loop for any shard count, with the lock held *)
(* or not when the loop is entered.  The loop keeps running: each of its   *)
(* steps is taken when it stays possible.                                  *)
(***************************************************************************)
InitRetry ==
    /\ rt_pc = "retry"
    /\ rt_old \in 1..MaxShards
    /\ rt_lock \in BOOLEAN
    /\ rt_ret \in {r \in RetCodes : FaultedRetAccepted(r)}
    /\ rt_cmd = NoCmd
    /\ rt_slept = 0
    /\ rt_tries = 0
    /\ CoreIdle /\ SysIdle /\ FwIdle /\ MainIdle

NextRetry ==
    \/ RtRetryReshard /\ UNCHANGED <<coreVars, sysVars, fwVars, mainVars>>
    \/ RtSleep /\ UNCHANGED <<coreVars, sysVars, fwVars, mainVars>>
    \/ RtLockExpires /\ UNCHANGED <<coreVars, sysVars, fwVars, mainVars>>

SpecRetry ==
    /\ InitRetry
    /\ [][NextRetry]_vars
    /\ WF_vars(RtRetryReshard /\ UNCHANGED <<coreVars, sysVars, fwVars, mainVars>>)
    /\ WF_vars(RtSleep /\ UNCHANGED <<coreVars, sysVars, fwVars, mainVars>>)

(***************************************************************************)
(* C13.  In the retry loop every command is un-faulted and asks for        *)
(* old_shard_count + 1 shards.  A retry that returns EBUSY is followed by  *)
(* the 30 second wait and then by another retry, however many retries      *)
(* came before; a retry that returns 0 goes on to the final checks, and    *)
(* one that returns any other status fails the scenario.  If from some     *)
(* point on the reshard lock is no longer held, the loop is eventually     *)
(* left.                                                                   *)
(***************************************************************************)
InLoop == rt_pc \in {"retry", "sleep"}

RetryStep ==
    /\ rt_old' = rt_old
    /\ (rt_pc = "retry" /\ rt_pc' # "retry") =>
          /\ rt_cmd' = ReshardCmd(rt_old + 1, NoFault)
          /\ rt_ret' = EBUSY => rt_pc' = "sleep"
          /\ rt_ret' = 0 => rt_pc' = "final_stats"
          /\ rt_ret' \notin {0, EBUSY} => rt_pc' = "AssertionError"
    /\ (rt_pc = "sleep" /\ rt_pc' # "sleep") =>
          /\ rt_pc' = "retry"
          /\ rt_slept' = SleepSeconds
    /\ ~InLoop => ~InLoop'

C13_RetryUntilNotBusy ==
    /\ [][RetryStep]_vars
    /\ (rt_pc = "sleep") ~> (rt_pc = "retry" /\ rt_slept = SleepSeconds)
    /\ (rt_pc = "retry") ~> (rt_pc # "retry" /\ rt_cmd = ReshardCmd(rt_old + 1, NoFault))
    /\ <>[](~rt_lock) => <>(~InLoop)

C13_Witness ==
    /\ rt_pc = "retry"
    /\ rt_ret = EBUSY
    /\ rt_slept = SleepSeconds
    /\ rt_tries = MaxBusy + 1

(***************************************************************************)
(* Specification of a caller that calls mock_bad_firewalld and then calls  *)
(* firewall operations on the value returned.                              *)
(***************************************************************************)
InitFirewalld ==
    /\ fw_pc = "call"
    /\ fw_f = Unbound
    /\ fw_ret = Unbound
    /\ fw_calls = <<>>
    /\ CoreIdle /\ SysIdle /\ MainIdle /\ RtIdle

NextFirewalld ==
    \/ FwCall /\ UNCHANGED <<coreVars, sysVars, mainVars, rtVars>>
    \/ FwConstruct /\ UNCHANGED <<coreVars, sysVars, mainVars, rtVars>>
    \/ FwSetEnableServiceFor /\ UNCHANGED <<coreVars, sysVars, mainVars, rtVars>>
    \/ FwSetApplyRules /\ UNCHANGED <<coreVars, sysVars, mainVars, rtVars>>
    \/ FwSetOpenPorts /\ UNCHANGED <<coreVars, sysVars, mainVars, rtVars>>
    \/ FwReturn /\ UNCHANGED <<coreVars, sysVars, mainVars, rtVars>>
    \/ FwCallerInvoke /\ UNCHANGED <<coreVars, sysVars, mainVars, rtVars>>

SpecFirewalld == InitFirewalld /\ [][NextFirewalld]_vars

(***************************************************************************)
(* C14.  The value mock_bad_firewalld returns to its caller is a firewall  *)
(* stand-in (a mock of Firewalld), and every call of enable_service_for,   *)
(* apply_rules or open_ports the caller makes on it raises.                *)
(***************************************************************************)
C14_ReturnsRaisingStandIn ==
    fw_pc = "returned" =>
        /\ fw_ret.type = "Mock"
        /\ \A i \in DOMAIN fw_calls : fw_calls[i].outcome # "returns a Mock"

(***************************************************************************)
(* C15.  When write_test_files has returned, the recorded list holds one   *)
(* record per mount passed, in the order passed; for each mount the        *)
(* directory created is <host mount path>/<sub-path without its leading    *)
(* separator>/testdir (the sub-path component dropped when it is empty),   *)
(* the recorded path is that directory plus /testfile, and the recorded    *)
(* path lies under the host mount path.                                    *)
(***************************************************************************)
StartsWith(s, pre) == MatchAt(s, pre, 0)
EndsWith(s, suf) == Len(suf) <= Len(s) /\ MatchAt(s, suf, Len(s) - Len(suf))
StripLeadingSep(p) == IF p # <<>> /\ Head(p) = "/" THEN Tail(p) ELSE p
ExpectedDir(mount_x, testpath) ==
    LET sub == StripLeadingSep(testpath)
    IN  mount_x.hostfs_mntpt \o Sep \o (IF sub = <<>> THEN <<>> ELSE sub \o Sep) \o Dirname

C15_PathComposition ==
    mds_pc = "written" =>
        /\ Len(mds_test_set) = Len(mds_mounts)
        /\ \A i \in DOMAIN mds_test_set :
              LET mount_x == Mount(mds_mounts[i])
                  t == mds_test_set[i]
              IN  /\ t.mount = mount_x.id
                  /\ \E e \in Range(mds_log) :
                        /\ e.op = "mkdir" /\ e.mount = mount_x.id
                        /\ e.args = <<ExpectedDir(mount_x, mds_testpath)>>
                  /\ t.path = ExpectedDir(mount_x, mds_testpath) \o Sep \o Filename
                  /\ StartsWith(t.path, mount_x.hostfs_mntpt \o Sep)

(***************************************************************************)
(* C16.  The step with which run_mds_cap_tests takes its arguments keeps   *)
(* the number and the order of the records, and the mount and the          *)
(* expected content of each.  With no root (None or empty) the list is     *)
(* unchanged.  With a root, a recorded path of the form <host mount path>  *)
(* <middle> testdir/testfile becomes <host mount path> <middle with the    *)
(* root removed> testdir/testfile: the host mount path and the             *)
(* testdir/testfile suffix are preserved.                                  *)
(***************************************************************************)
TestSuffix == Dirname \o Sep \o Filename

RewrittenAsClaimed(old, new, mntpt) ==
    LET host == Mount(old.mount).hostfs_mntpt
        middle == SubSeq(old.path, Len(host) + 1, Len(old.path) - Len(TestSuffix))
    IN  /\ new.mount = old.mount
        /\ new.data = old.data
        /\ (StartsWith(old.path, host \o Sep) /\ EndsWith(old.path, TestSuffix)) =>
              /\ StartsWith(new.path, host \o Sep)
              /\ EndsWith(new.path, TestSuffix)
              /\ new.path = host \o Replace(middle, mntpt) \o TestSuffix

RewriteStep ==
    (mds_pc = "written" /\ mds_pc' = "read") =>
        /\ Len(mds_test_set') = Len(mds_test_set)
        /\ IF mds_mntpt' \in {PyNone, <<>>}
           THEN mds_test_set' = mds_test_set
           ELSE \A i \in DOMAIN mds_test_set :
                   RewrittenAsClaimed(mds_test_set[i], mds_test_set'[i], mds_mntpt')

C16_RewriteRemovesOnlyTheRoot == [][RewriteStep]_vars

(***************************************************************************)
(* Specification of _get_fsnames_from_moncap in which the loop keeps       *)
(* running while it can.                                                   *)
(***************************************************************************)
\* a pass of the loop is taken
FsnamesPass ==
    /\ fs_pc = "loop"
    /\ Find(fs_moncap, Marker) # -1
    /\ fs_iters' = fs_iters + 1

SpecFsnamesFair ==
    /\ InitFsnames
    /\ [][NextFsnames]_vars
    /\ WF_fs_iters(FsnamesPass)
    /\ WF_fs_pc(GetFsnamesReturn)

(***************************************************************************)
(* C17.  _get_fsnames_from_moncap terminates: every pass of the loop       *)
(* leaves the remaining string strictly shorter, the number of passes      *)
(* plus the length of the remaining string never exceeds the length of     *)
(* the argument, and the call eventually returns.                          *)
(***************************************************************************)
ShortenStep == fs_iters' # fs_iters => Len(fs_moncap') < Len(fs_moncap)

C17_Terminates ==
    /\ [][ShortenStep]_vars
    /\ [](fs_iters + Len(fs_moncap) <= Len(fs_input))
    /\ <>(fs_pc = "done")

C17_Witness ==
    /\ fs_pc = "done"
    /\ fs_iters >= 2
    /\ Len(fs_input) >= 2 * Len(Marker)

====
